---- MODULE Spec2Model ----
(***************************************************************************)
(* cpatagon/camara-uart: chunked photo transfer over a serial link.        *)
(*                                                                         *)
(* Two transmitters (transport_api_robust.UartTransportRobust and          *)
(* transport_api_ack.UartTransport) and two receivers (the current         *)
(* client/uart_client_v5.UARTPhotoClient and the earlier                   *)
(* backups/.../uart_client_v5.UARTClientACK) talk over two byte streams:   *)
(* s2c carries frames, c2s carries the receiver's status lines.            *)
(*                                                                         *)
(* Bytes are integers 0..255.  A text line is a sequence of tokens: the    *)
(* words of the protocol, ":", "-", decimal digits and the "\r\n"          *)
(* terminator.  A blocking read returns the requested count as soon as it  *)
(* is available; it returns short only when the peer has nothing more to   *)
(* write (its timeout is long against the peer's pauses).                  *)
(***************************************************************************)
EXTENDS Integers, Sequences, FiniteSets, TLC

(* ---------------------------- bounds ---------------------------------- *)
MaxLen == 11
MaxPartials == 5
MaxBabble == 3
MaxMsgs == 3

(* ------------------------ protocol constants -------------------------- *)
Rep(b, n) == [i \in 1..n |-> b]

START_MARKER == Rep(170, 10)
END_MARKER == Rep(187, 10)
END_TEXT == <<60, 70, 73, 78, 95, 84, 82, 65, 78, 83, 77, 73, 83, 73, 79, 78, 62, 13, 10>>
FIN_TEXT == <<60, 70, 73, 78, 95, 84, 82, 65, 78, 83, 77, 73, 83, 73, 79, 78, 62>>
RETRY_MARKER == Rep(204, 4)
SIZE_BYTES == 4
DEFAULT_CHUNK == 512
ClientChunk == 4096
DrainChunkV5 == 100
DrainReadBk == 1000
MaxRetriesRobust == 2
MaxRetriesAck == 3
MaxCorrectionCycles == 3
SizeHuge == 2147483647

CRLF == "\r\n"
ACK_READY == <<"ACK_READY">>
ACK_OK == <<"ACK_OK">>
ACK_MISSING == <<"ACK_MISSING", ":">>
ACK_ERROR == <<"ACK_ERROR">>

(* ------------------------------ helpers -------------------------------- *)
Min(a, b) == IF a < b THEN a ELSE b
Max(a, b) == IF a > b THEN a ELSE b

\* data[a:b] with Python's slice semantics (negative indices count from the end)
PyIndex(len, i) == IF i < 0 THEN Max(len + i, 0) ELSE Min(i, len)
PySlice(s, a, b) == SubSeq(s, PyIndex(Len(s), a) + 1, PyIndex(Len(s), b))

\* s[-n:] for n > 0
LastN(s, n) == SubSeq(s, Max(Len(s) - n, 0) + 1, Len(s))

\* sub in s   (bytes containment)
Contains(s, sub) == \E i \in 0..(Len(s) - Len(sub)) : SubSeq(s, i + 1, i + Len(sub)) = sub

\* struct.pack(">I", n)
Pack(n) == <<(n \div 16777216) % 256, (n \div 65536) % 256, (n \div 256) % 256, n % 256>>

\* struct.unpack(">I", b)[0]; values of 2^31 and above are represented by
\* SizeHuge, which exceeds every byte count a run can reach
Unpack(b) == IF b[1] >= 128 THEN SizeHuge ELSE b[1] * 16777216 + b[2] * 65536 + b[3] * 256 + b[4]

DigitTok == <<"0", "1", "2", "3", "4", "5", "6", "7", "8", "9">>
IsDigit(t) == \E d \in 1..10 : DigitTok[d] = t
DigitVal(t) == (CHOOSE d \in 1..10 : DigitTok[d] = t) - 1

RECURSIVE Str(_)
\* str(n) for n >= 0, as used by the f-strings
Str(n) == IF n < 10 THEN <<DigitTok[n + 1]>> ELSE Str(n \div 10) \o <<DigitTok[(n % 10) + 1]>>

RECURSIVE DigitsVal(_)
DigitsVal(ds) == IF ds = <<>> THEN 0 ELSE DigitsVal(SubSeq(ds, 1, Len(ds) - 1)) * 10 + DigitVal(ds[Len(ds)])

AllDigits(ds) == ds # <<>> /\ \A i \in 1..Len(ds) : IsDigit(ds[i])

\* int(text): ok is FALSE where Python raises ValueError
ParseInt(f) ==
    IF AllDigits(f) THEN [ok |-> TRUE, val |-> DigitsVal(f)]
    ELSE IF f # <<>> /\ f[1] = "-" /\ AllDigits(Tail(f)) THEN [ok |-> TRUE, val |-> 0 - DigitsVal(Tail(f))]
    ELSE [ok |-> FALSE, val |-> 0]

IsSpace(t) == t \in {CRLF, " "}

RECURSIVE LStrip(_)
LStrip(l) == IF l # <<>> /\ IsSpace(Head(l)) THEN LStrip(Tail(l)) ELSE l

RECURSIVE RStrip(_)
RStrip(l) == IF l # <<>> /\ IsSpace(l[Len(l)]) THEN RStrip(SubSeq(l, 1, Len(l) - 1)) ELSE l

\* line.strip()
Strip(l) == RStrip(LStrip(l))

StartsWith(l, p) == Len(l) >= Len(p) /\ SubSeq(l, 1, Len(p)) = p

RECURSIVE UpToColon(_)
UpToColon(l) == IF l = <<>> \/ Head(l) = ":" THEN <<>> ELSE <<Head(l)>> \o UpToColon(Tail(l))

RECURSIVE AfterColon(_)
AfterColon(l) == IF l = <<>> THEN <<>> ELSE IF Head(l) = ":" THEN Tail(l) ELSE AfterColon(Tail(l))

\* line.split(":")[1] for a line that contains a colon
SplitField1(l) == UpToColon(AfterColon(l))

(* ------------------------------- inputs -------------------------------- *)
\* payload templates; every payload is a prefix of one of them
TplCount(i) == i
TplJpeg(i) == IF i % 2 = 1 THEN 255 ELSE IF i = 2 THEN 216 ELSE 217
TplRetry(i) == IF i <= 4 THEN 204 ELSE i
Templates == {[i \in 1..(MaxLen + 1) |-> TplCount(i)], [i \in 1..(MaxLen + 1) |-> TplJpeg(i)], [i \in 1..(MaxLen + 1) |-> TplRetry(i)]}
Payloads == {SubSeq(t, 1, k) : t \in Templates, k \in 0..MaxLen}

\* bytes already on the link before the frame
Noises == {<<>>, RETRY_MARKER, <<170>>}

Senders == {"robust", "ack", "plain"}
Receivers == {"v5", "bk", "env"}

VARIABLES
    tx,          \* which transmitter runs
    rx,          \* which receiver runs ("env": only a source of status lines)
    data,        \* the payload handed to the transmitter
    lossm,       \* number of trailing payload bytes the link drops on the first pass
    lossTrailer, \* the link drops the advisory trailer as well
    wfault,      \* the transmitter's port fault: "none", a write that raises
                 \* ("header", "chunk"), or "closed" (the port is closed by the
                 \* time of the ACK wait and every readline raises)
    rfault,      \* the receiver's port fault: "none", "read" (the payload read
                 \* raises), "write" (every write raises) or "ack_write" (the
                 \* write of the status line raises, the next write works)
    noise,       \* bytes on the link before the frame
    camera,      \* capture_photo has an image to return
    expected,    \* expected_size handed to receive_image
    chan,        \* the serial channel: "free", "slow" (transmits late) or "stuck"
    wpartial,    \* a chunk write may accept fewer bytes than it is given
    s2c,         \* bytes written by the transmitter, not yet read by the receiver
    c2s,         \* lines written by the receiver, not yet read by the transmitter
    s_pc,        \* transmitter position
    sent,        \* transmitter cursor
    retry,       \* loop variable of the verification cycle
    missing_bytes, \* second component of the last _wait_for_ack result
    s_result,    \* "none", "ok", "fail"
    nwaits,      \* ACK waits started
    nretx,       \* Retry Frames written
    lastRetx,    \* <<>> or <<[n, bytes]>>: the last Retry Frame and the offset it answers
    ackFirst,    \* <<>> or <<line>>: the line that ended the first ACK wait
    ackUniform,  \* every ACK wait so far ended on the same line as the first
    outq,        \* bytes the channel accepted and has not transmitted (out_waiting)
    accepted,    \* payload bytes the channel accepted in the bulk-send loop
    prun,        \* chunk writes in a row that were partial
    drained,     \* the outbound buffer was empty when the bulk-send phase was left
    wire,        \* every byte the server side has written to the port, in order
    r_pc,        \* receiver position
    window,      \* sliding window of the marker search
    startres,    \* result of _wait_start_marker: "none", "true", "retry", "false"
    tsize,       \* transmitted_size (-1 before the header is decoded)
    rbuf,        \* received_data
    remaining,   \* bytes the current _read_exact still wants
    extra,       \* bytes drained after the payload
    ndrain,      \* reads the trailer drain has made
    cycle,       \* correction cycle index
    r_result,    \* "none", "ok", "fail"
    saved,       \* <<>> or <<bytes>>: the file written
    r_acks,      \* status lines written after the frame read, in order
    t_pc,        \* the test server: "off", "serving" (in its loop) or "closed"
    message_count, \* non-empty lines the test server has read
    t_in,        \* lines on the link toward the test server, not yet read
    t_out,       \* lines the test server has written, in order
    t_sent,      \* lines the test client has written
    now,         \* time.time() in the timed sessions, in tenths of a second
    s_wake,      \* when the transmitter's current sleep or readline ends
    deadline,    \* deadline of _wait_for_ack
    r_wake,      \* when the receiver's current read or sleep ends
    last_data_time \* last_data_time of _read_exact

vars == <<tx, rx, data, lossm, lossTrailer, wfault, rfault, noise, camera, expected, chan, wpartial, s2c, c2s, s_pc, sent, retry, missing_bytes, s_result, nwaits, nretx, lastRetx, ackFirst, ackUniform, outq, accepted, prun, drained, wire, r_pc, window, startres, tsize, rbuf, remaining, extra, ndrain, cycle, r_result, saved, r_acks, t_pc, message_count, t_in, t_out, t_sent, now, s_wake, deadline, r_wake, last_data_time>>

\* the test programs' state
tVars == <<t_pc, message_count, t_in, t_out, t_sent>>
\* what no step of a transfer changes: its configuration, and the test programs
\* the clocks of the timed sessions
clockVars == <<now, s_wake, deadline, r_wake, last_data_time>>
cfgVars == <<tx, rx, data, lossm, lossTrailer, wfault, rfault, noise, camera, chan, wpartial, tVars, clockVars>>

\* the test programs are not running
TestIdle == t_pc = "off" /\ message_count = 0 /\ t_in = <<>> /\ t_out = <<>> /\ t_sent = 0

\* no clock is read
ClockIdle == now = 0 /\ s_wake = 0 /\ deadline = 0 /\ r_wake = 0 /\ last_data_time = 0
sVars == <<s_pc, sent, retry, missing_bytes, s_result, nwaits, nretx, lastRetx, ackFirst, ackUniform, outq, accepted, prun, drained, wire>>
rVars == <<r_pc, window, startres, tsize, rbuf, remaining, extra, ndrain, cycle, r_result, saved, r_acks>>

size == Len(data)

Init ==
    /\ tx \in Senders
    /\ rx \in Receivers
    /\ data \in Payloads
    /\ lossm \in 0..Len(data)
    /\ noise \in Noises
    /\ (lossm > 0 => noise = <<>>)
    /\ lossTrailer \in BOOLEAN
    /\ wfault \in {"none", "header", "chunk", "closed"}
    /\ (wfault = "closed" => tx # "plain")
    /\ rfault \in {"none", "read", "write", "ack_write"}
    /\ (rfault # "none" => rx # "env" /\ lossm = 0 /\ ~lossTrailer /\ noise = <<>> /\ wfault = "none"
                                /\ expected = Len(data) /\ Len(data) > 0)
    /\ (wfault # "none" => lossm = 0 /\ ~lossTrailer /\ noise = <<>> /\ Len(data) > 0)
    /\ (rx = "env" => lossm = 0 /\ ~lossTrailer /\ noise = <<>> /\ wfault = "none")
    /\ camera = TRUE
    /\ expected \in {Len(data), Len(data) + 1}
    /\ (rx # "v5" => expected = Len(data))
    /\ chan \in {"free", "slow", "stuck"}
    /\ wpartial \in BOOLEAN
    /\ ~(chan # "free" /\ wpartial)
    /\ ((chan # "free" \/ wpartial)
            => rfault = "none" /\ lossm = 0 /\ ~lossTrailer /\ noise = <<>> /\ wfault = "none" /\ expected = Len(data) /\ Len(data) > 0)
    /\ (tx = "plain" \/ wpartial => rx # "env")
    /\ s2c = noise
    /\ c2s = <<>>
    /\ s_pc = IF tx = "robust" THEN "wait_ready" ELSE "preamble"
    /\ sent = 0
    /\ retry = 0
    /\ missing_bytes = 0
    /\ s_result = "none"
    /\ nwaits = 0
    /\ nretx = 0
    /\ lastRetx = <<>>
    /\ ackFirst = <<>>
    /\ ackUniform = TRUE
    /\ outq = <<>>
    /\ accepted = <<>>
    /\ prun = 0
    /\ drained = FALSE
    /\ wire = <<>>
    /\ r_pc = IF rx = "v5" THEN "ready" ELSE IF rx = "bk" THEN "wait_marker" ELSE "done"
    /\ window = <<>>
    /\ startres = "none"
    /\ tsize = -1
    /\ rbuf = <<>>
    /\ remaining = 0
    /\ extra = <<>>
    /\ ndrain = 0
    /\ cycle = 0
    /\ r_result = "none"
    /\ saved = <<>>
    /\ r_acks = <<>>
    /\ TestIdle
    /\ ClockIdle

(* ------------------------------ the link ------------------------------- *)
\* bytes written by the transmitter reach the receiver's input buffer; with
\* no receiver program at the other end they leave the model
Put(bytes) == IF rx = "env" THEN s2c ELSE s2c \o bytes

\* the part of the first-pass chunk data[from+1 .. from+n] the link delivers
Delivered(from, n) == SubSeq(data, from + 1, Min(from + n, size - lossm))

\* what the next blocking read of the receiver needs
ReadNeed ==
    CASE r_pc \in {"wait_marker", "wait_retry"} -> 1
      [] r_pc = "read_size" -> SIZE_BYTES
      [] r_pc \in {"rx_chunk", "bk_chunk", "bk_fix"} -> Min(ClientChunk, remaining)
      [] OTHER -> 0

\* the receiver has nothing to do until more bytes arrive
RBlocked == rx = "env" \/ r_pc = "done" \/ (ReadNeed > 0 /\ Len(s2c) < ReadNeed)

\* the transmitter has nothing to do until a line arrives
SBlocked ==
    /\ s_pc = "done" \/ (s_pc \in {"wait_ready", "wait_ack", "sv_cmd"} /\ c2s = <<>>)
    /\ outq = <<>> \/ chan # "slow"

\* an except clause that raises again
ExceptReturnReraise == "raised"

\* the value a session function returns from its outermost except clause
ExceptReturn == "fail"

(* ---------------------------- transmitter ------------------------------ *)
\* a cycle that allows one correction more than max_retries
MaxRetriesOneMore == IF tx = "robust" THEN MaxRetriesRobust + 1 ELSE MaxRetriesAck + 1

\* max_retries of the transmitter that runs
MaxRetries == IF tx = "robust" THEN MaxRetriesRobust ELSE MaxRetriesAck

\* ser.write of bytes the channel accepts: they go onto the wire, or into the
\* outbound buffer of a channel that is not transmitting at the moment
Write(b) ==
    IF chan = "free" THEN s2c' = Put(b) /\ outq' = outq
    ELSE outq' = outq \o b /\ s2c' = s2c

\* _wait_for_client_ready: one line read; any line but ACK_READY is skipped
S_ReadyLine ==
    /\ s_pc = "wait_ready"
    /\ c2s # <<>>
    /\ c2s' = Tail(c2s)
    /\ s_pc' = IF Strip(Head(c2s)) = ACK_READY THEN "preamble" ELSE "wait_ready"
    /\ UNCHANGED <<cfgVars, expected, rVars, s2c, sent, retry, missing_bytes, s_result, nwaits, nretx, lastRetx, ackFirst, ackUniform, outq, accepted, prun, drained, wire>>

\* _wait_for_client_ready: deadline passed, the send goes on regardless
S_ReadyTimeout ==
    /\ s_pc = "wait_ready"
    /\ c2s = <<>>
    /\ RBlocked
    /\ s_pc' = "preamble"
    /\ UNCHANGED <<cfgVars, expected, rVars, s2c, c2s, sent, retry, missing_bytes, s_result, nwaits, nretx, lastRetx, ackFirst, ackUniform, outq, accepted, prun, drained, wire>>

\* start marker and size header
S_Preamble ==
    /\ s_pc = "preamble"
    /\ wfault # "header"
    /\ s2c' = Put(START_MARKER \o Pack(size))
    /\ wire' = wire \o START_MARKER \o Pack(size)
    /\ sent' = 0
    /\ s_pc' = "chunks"
    /\ UNCHANGED <<cfgVars, expected, rVars, c2s, retry, missing_bytes, s_result, nwaits, nretx, lastRetx, ackFirst, ackUniform, outq, accepted, prun, drained>>

\* the write of the size header raises: the outer handler returns False
S_HeaderFault ==
    /\ s_pc = "preamble"
    /\ wfault = "header"
    /\ s2c' = Put(START_MARKER)
    /\ wire' = wire \o START_MARKER
    /\ s_pc' = "done"
    /\ s_result' = ExceptReturn
    /\ UNCHANGED <<cfgVars, expected, rVars, c2s, sent, retry, missing_bytes, nwaits, nretx, lastRetx, ackFirst, ackUniform, outq, accepted, prun, drained>>

\* a chunk write that raises and is swallowed: the loop counts the chunk as
\* written and goes on
S_ChunkFaultSwallowed ==
    /\ s_pc = "chunks"
    /\ sent < size
    /\ wfault = "chunk"
    /\ sent' = size
    /\ UNCHANGED <<cfgVars, expected, rVars, s2c, c2s, s_pc, s_result, retry, missing_bytes, nwaits, nretx, lastRetx, ackFirst, ackUniform, outq, accepted, prun, drained, wire>>

\* a chunk write raises SerialTimeoutException: the send returns False
S_ChunkFault ==
    /\ s_pc = "chunks"
    /\ sent < size
    /\ wfault = "chunk"
    /\ s_pc' = "done"
    /\ s_result' = "fail"
    /\ UNCHANGED <<cfgVars, expected, rVars, s2c, c2s, sent, retry, missing_bytes, nwaits, nretx, lastRetx, ackFirst, ackUniform, outq, accepted, prun, drained, wire>>

\* the progress log of send_bytes_with_ack evaluates sent % (size // 10)
AckLogRaises == size \div 10 = 0

\* how far the cursor moves after a write of a chunk of n bytes of which the
\* channel accepted k: send_bytes_with_ack does not look at the write's result
Advance(n, k) == IF tx = "ack" THEN n ELSE k

\* one iteration of the bulk-send loop
S_Chunk ==
    /\ s_pc = "chunks"
    /\ sent < size
    /\ wfault # "chunk"
    /\ LET n == Min(DEFAULT_CHUNK, size - sent)
       IN \E k \in 0..n :
            /\ (k < n => wpartial /\ prun < MaxPartials)
            /\ Write(Delivered(sent, k))
            /\ wire' = wire \o SubSeq(data, sent + 1, sent + k)
            /\ accepted' = accepted \o SubSeq(data, sent + 1, sent + k)
            /\ prun' = IF k < n THEN prun + 1 ELSE 0
            /\ sent' = sent + Advance(n, k)
            /\ IF tx = "ack" /\ AckLogRaises
               THEN s_pc' = "done" /\ s_result' = ExceptReturn
               ELSE s_pc' = "chunks" /\ s_result' = s_result
    /\ UNCHANGED <<cfgVars, expected, rVars, c2s, retry, missing_bytes, nwaits, nretx, lastRetx, ackFirst, ackUniform, drained>>

\* a drain loop left without looking at the outbound buffer
DrainSeenEmptyBlind == TRUE

\* the drain loop is left normally: out_waiting is 0
DrainSeenEmpty == outq = <<>>

\* the final check of send_bytes
PlainSuccess == sent = size /\ outq = <<>>

\* after the loop: the outbound buffer is seen empty (send_bytes_with_ack does
\* not look), the advisory trailer is written; send_bytes returns, the other
\* two begin the first ACK wait
S_Trailer ==
    /\ s_pc = "chunks"
    /\ sent >= size
    /\ tx = "ack" \/ DrainSeenEmpty
    /\ drained' = (outq = <<>>)
    /\ IF lossTrailer THEN UNCHANGED <<s2c, outq>> ELSE Write(END_MARKER \o END_TEXT)
    /\ wire' = wire \o END_MARKER \o END_TEXT
    /\ IF tx = "plain"
       THEN /\ s_pc' = "done"
            /\ s_result' = IF PlainSuccess THEN "ok" ELSE "fail"
            /\ UNCHANGED <<retry, nwaits>>
       ELSE /\ retry' = 0
            /\ nwaits' = 1
            /\ s_pc' = "wait_ack"
            /\ UNCHANGED s_result
    /\ UNCHANGED <<cfgVars, expected, rVars, c2s, sent, missing_bytes, nretx, lastRetx, ackFirst, ackUniform, accepted, prun>>

\* the drain loop: out_waiting is still positive when max_drain_time is over
S_DrainTimeout ==
    /\ s_pc = "chunks"
    /\ sent >= size
    /\ tx \in {"robust", "plain"}
    /\ outq # <<>>
    /\ s_pc' = "done"
    /\ s_result' = "fail"
    /\ UNCHANGED <<cfgVars, expected, rVars, s2c, c2s, sent, retry, missing_bytes, nwaits, nretx, lastRetx, ackFirst, ackUniform, outq, accepted, prun, drained, wire>>

\* a slow channel transmits what its outbound buffer holds
L_Transmit ==
    /\ chan = "slow"
    /\ outq # <<>>
    /\ s2c' = Put(outq)
    /\ outq' = <<>>
    /\ UNCHANGED <<cfgVars, expected, rVars, c2s, s_pc, sent, retry, missing_bytes, s_result, nwaits, nretx, lastRetx, ackFirst, ackUniform, accepted, prun, drained, wire>>

\* _wait_for_ack on one stripped line: [done, ok, missing]
AckMalformedRobust(l) == [done |-> TRUE, ok |-> FALSE, missing |-> size]
AckMalformedAck(l) == [done |-> TRUE, ok |-> FALSE, missing |-> 0]

AckMissing(l) ==
    LET p == ParseInt(SplitField1(l))
    IN IF p.ok THEN [done |-> TRUE, ok |-> FALSE, missing |-> size - p.val]
       ELSE IF tx = "robust" THEN AckMalformedRobust(l) ELSE AckMalformedAck(l)

AckErrorRobust(l) == [done |-> TRUE, ok |-> FALSE, missing |-> size]

WaitForAck(l) ==
    IF l = <<>> THEN [done |-> FALSE, ok |-> FALSE, missing |-> 0]
    ELSE IF l = ACK_OK THEN [done |-> TRUE, ok |-> TRUE, missing |-> 0]
    ELSE IF StartsWith(l, ACK_MISSING) THEN AckMissing(l)
    ELSE IF tx = "robust" /\ l = ACK_ERROR THEN AckErrorRobust(l)
    ELSE [done |-> FALSE, ok |-> FALSE, missing |-> 0]

\* _send_missing_bytes: the parameter check
RetxInvalid(start_offset, missing_count) ==
    IF tx = "robust" THEN start_offset >= size \/ missing_count <= 0 ELSE start_offset >= size

\* a slice that starts one byte late
MissingDataLate(start_offset, missing_count) ==
    PySlice(data, start_offset + 1, Min(start_offset + missing_count, size))

\* _send_missing_bytes: the bytes after the retry marker
MissingData(start_offset, missing_count) ==
    PySlice(data, start_offset, Min(start_offset + missing_count, size))

\* a budget check that lets one more correction through
RetriesExhaustedLate(r) == r > MaxRetries

\* the retry budget check of the verification cycle
RetriesExhausted(r) == r >= MaxRetries

\* the verification cycle after an ACK wait returned (ok, missing)
AfterAck(ok, missing) ==
    /\ missing_bytes' = missing
    /\ IF ok THEN
           /\ s_pc' = "done" /\ s_result' = "ok"
           /\ UNCHANGED <<s2c, outq, wire, retry, nwaits, nretx, lastRetx>>
       ELSE IF missing <= 0 \/ RetriesExhausted(retry) \/ RetxInvalid(size - missing, missing) THEN
           /\ s_pc' = "done" /\ s_result' = "fail"
           /\ UNCHANGED <<s2c, outq, wire, retry, nwaits, nretx, lastRetx>>
       ELSE
           /\ Write(RETRY_MARKER \o MissingData(size - missing, missing))
           /\ wire' = wire \o RETRY_MARKER \o MissingData(size - missing, missing)
           /\ lastRetx' = <<[n |-> size - missing, bytes |-> RETRY_MARKER \o MissingData(size - missing, missing)]>>
           /\ nretx' = nretx + 1
           /\ retry' = retry + 1
           /\ nwaits' = nwaits + 1
           /\ s_pc' = "wait_ack" /\ s_result' = s_result

\* _wait_for_ack reads one line; a recognized line ends the wait and the
\* verification cycle runs on to the next wait or to the end of the send
S_AckLine ==
    /\ s_pc = "wait_ack"
    /\ wfault # "closed"
    /\ c2s # <<>>
    /\ c2s' = Tail(c2s)
    /\ LET l == Strip(Head(c2s))
           w == WaitForAck(l)
       IN IF w.done
          THEN /\ AfterAck(w.ok, w.missing)
               /\ ackFirst' = IF ackFirst = <<>> THEN <<l>> ELSE ackFirst
               /\ ackUniform' = (ackUniform /\ (ackFirst = <<>> \/ ackFirst = <<l>>))
          ELSE UNCHANGED <<s2c, outq, wire, s_pc, s_result, retry, missing_bytes, nwaits, nretx, lastRetx, ackFirst, ackUniform>>
    /\ UNCHANGED <<cfgVars, expected, rVars, sent, accepted, prun, drained>>

\* _wait_for_ack: deadline passed with no recognized line (none came, or
\* every readline raised and was caught inside the loop): (False, 0)
S_AckTimeout ==
    /\ s_pc = "wait_ack"
    /\ \/ wfault = "closed"
       \/ (c2s = <<>> /\ RBlocked /\ (outq = <<>> \/ chan # "slow"))
    /\ AfterAck(FALSE, 0)
    /\ ackFirst' = IF ackFirst = <<>> THEN <<<<"timeout">>>> ELSE ackFirst
    /\ ackUniform' = (ackUniform /\ (ackFirst = <<>> \/ ackFirst = <<<<"timeout">>>>))
    /\ UNCHANGED <<cfgVars, expected, rVars, c2s, sent, accepted, prun, drained>>

\* the peer keeps sending: while the receiver drains the trailer and has
\* emptied its input buffer, one more byte that is no part of the terminator
\* text arrives
L_Babble ==
    /\ rx \in {"v5", "bk"}
    /\ r_pc \in {"drain", "bk_drain"}
    /\ s2c = <<>>
    /\ ndrain < MaxBabble
    /\ s2c' = <<0>>
    /\ UNCHANGED <<cfgVars, expected, sVars, rVars, c2s>>

(* ----------------- the link as a source of status lines ---------------- *)
MissingLine(n) == ACK_MISSING \o Str(n) \o <<CRLF>>

EnvCounts == {n \in {0, 1, size - 1, size, size + 1} : n >= 0}

EnvLines ==
    {ACK_READY \o <<CRLF>>, ACK_OK \o <<CRLF>>, ACK_ERROR \o <<CRLF>>, <<CRLF>>, <<"NOISE", CRLF>>}
    \cup {MissingLine(n) : n \in EnvCounts}
    \cup {ACK_MISSING \o <<":", "1", CRLF>>, ACK_MISSING \o <<"-", "1", CRLF>>, ACK_MISSING \o <<"x", CRLF>>}

\* a line arrives while the transmitter is reading lines
E_Line ==
    /\ rx = "env"
    /\ s_pc \in {"wait_ready", "wait_ack"}
    /\ c2s = <<>>
    /\ \E l \in EnvLines : c2s' = <<l>>
    /\ UNCHANGED <<cfgVars, expected, sVars, rVars, s2c>>

(* ------------------------- receiver: both clients ---------------------- *)
\* send_ack_status of the current client
AckStatusV5(received_bytes, expected_bytes) ==
    IF received_bytes = expected_bytes THEN ACK_OK \o <<CRLF>>
    ELSE ACK_MISSING \o <<":">> \o Str(received_bytes) \o <<CRLF>>

\* send_ack of the earlier client
AckStatusBk(received_bytes, expected_bytes) ==
    IF received_bytes = expected_bytes THEN ACK_OK \o <<CRLF>>
    ELSE ACK_MISSING \o Str(received_bytes) \o <<CRLF>>

\* what send_client_ready puts on the line
ReadyWritten == IF rfault = "write" THEN <<>> ELSE <<ACK_READY \o <<CRLF>>>>

\* what a call of send_ack_status / send_ack puts on the line: when the write
\* raises the current client tries to write ACK_ERROR, the earlier one gives up
StatusWritten(line) ==
    IF rfault = "write" THEN <<>>
    ELSE IF rfault = "ack_write" THEN (IF rx = "v5" THEN <<ACK_ERROR \o <<CRLF>>>> ELSE <<>>)
    ELSE <<line>>

\* the window of the marker searches after one more byte
Slide(w, b, n) == LastN(w \o <<b>>, n)

\* _wait_start_marker on the window after a byte: "true", "retry" or "none"
StartMatchV5(w) ==
    IF w = START_MARKER THEN "true"
    ELSE IF Len(w) >= 4 /\ LastN(w, 4) = RETRY_MARKER THEN "retry"
    ELSE "none"

StartMatchBk(w) == IF w = START_MARKER THEN "true" ELSE "none"

\* send_client_ready
R_Ready ==
    /\ r_pc = "ready"
    /\ c2s' = c2s \o ReadyWritten
    /\ r_pc' = "wait_marker"
    /\ UNCHANGED <<cfgVars, expected, sVars, s2c, window, startres, tsize, rbuf, remaining, extra, ndrain, cycle, r_result, saved, r_acks>>

\* _wait_start_marker: one byte read
R_MarkerByte ==
    /\ r_pc = "wait_marker"
    /\ s2c # <<>>
    /\ s2c' = Tail(s2c)
    /\ LET w == Slide(window, Head(s2c), Len(START_MARKER))
           m == IF rx = "v5" THEN StartMatchV5(w) ELSE StartMatchBk(w)
       IN /\ window' = w
          /\ startres' = m
          /\ r_pc' = IF m = "none" THEN "wait_marker" ELSE "read_size"
    /\ UNCHANGED <<cfgVars, expected, sVars, c2s, tsize, rbuf, remaining, extra, ndrain, cycle, r_result, saved, r_acks>>

\* the False of the marker search is not looked at and the session reads on
R_MarkerTimeoutIgnored ==
    /\ r_pc = "wait_marker"
    /\ s2c = <<>>
    /\ SBlocked
    /\ startres' = "false"
    /\ r_pc' = "read_size"
    /\ UNCHANGED <<cfgVars, expected, sVars, s2c, c2s, window, tsize, rbuf, remaining, extra, ndrain, cycle, r_result, saved, r_acks>>

\* _wait_start_marker: max_wait passed; the session returns False
R_MarkerTimeout ==
    /\ r_pc = "wait_marker"
    /\ s2c = <<>>
    /\ SBlocked
    /\ startres' = "false"
    /\ r_pc' = "done"
    /\ r_result' = "fail"
    /\ UNCHANGED <<cfgVars, expected, sVars, s2c, c2s, window, tsize, rbuf, remaining, extra, ndrain, cycle, saved, r_acks>>

\* the 4-byte size header is read and decoded
R_ReadSize ==
    /\ r_pc = "read_size"
    /\ Len(s2c) >= SIZE_BYTES
    /\ s2c' = SubSeq(s2c, SIZE_BYTES + 1, Len(s2c))
    /\ LET ts == Unpack(SubSeq(s2c, 1, SIZE_BYTES))
       IN /\ tsize' = ts
          /\ rbuf' = IF rx = "bk" /\ ts = 0 THEN rbuf ELSE <<>>
          /\ remaining' = ts
          /\ IF rx = "v5" THEN r_pc' = "rx_top" /\ r_result' = r_result
             ELSE IF ts = 0 THEN r_pc' = "done" /\ r_result' = "fail"
             ELSE r_pc' = "bk_chunk" /\ r_result' = r_result
    /\ UNCHANGED <<cfgVars, expected, sVars, c2s, window, startres, extra, ndrain, cycle, saved, r_acks>>

\* the size header never completes; the current client reports 0 bytes
R_SizeTimeout ==
    /\ r_pc = "read_size"
    /\ Len(s2c) < SIZE_BYTES
    /\ SBlocked
    /\ s2c' = <<>>
    /\ r_pc' = "done"
    /\ r_result' = "fail"
    /\ IF rx = "v5"
       THEN /\ c2s' = c2s \o StatusWritten(AckStatusV5(0, expected))
            /\ r_acks' = r_acks \o StatusWritten(AckStatusV5(0, expected))
       ELSE UNCHANGED <<c2s, r_acks>>
    /\ UNCHANGED <<cfgVars, expected, sVars, window, startres, tsize, rbuf, remaining, extra, ndrain, cycle, saved>>

\* a read of the payload raises: the except clause of the session function
\* runs; the current client reports what it holds, both return False
R_ReadFault ==
    /\ rfault = "read"
    /\ r_pc \in {"rx_top", "bk_chunk"}
    /\ IF rx = "v5"
       THEN /\ c2s' = c2s \o StatusWritten(AckStatusV5(Len(rbuf), expected))
            /\ r_acks' = r_acks \o StatusWritten(AckStatusV5(Len(rbuf), expected))
       ELSE UNCHANGED <<c2s, r_acks>>
    /\ r_pc' = "done"
    /\ r_result' = ExceptReturn
    /\ UNCHANGED <<cfgVars, expected, sVars, s2c, window, startres, tsize, rbuf, remaining, extra, ndrain, cycle, saved>>

\* a read of the marker search or of the size header raises: the same except
\* clause runs, and the current client reports the length of the buffer the
\* object holds at that moment
R_EarlyFault ==
    /\ rfault = "read_early"
    /\ r_pc \in {"wait_marker", "read_size"}
    /\ IF rx = "v5"
       THEN /\ c2s' = c2s \o StatusWritten(AckStatusV5(Len(rbuf), expected))
            /\ r_acks' = r_acks \o StatusWritten(AckStatusV5(Len(rbuf), expected))
       ELSE UNCHANGED <<c2s, r_acks>>
    /\ r_pc' = "done"
    /\ r_result' = ExceptReturn
    /\ UNCHANGED <<cfgVars, expected, sVars, s2c, window, startres, tsize, rbuf, remaining, extra, ndrain, cycle, saved>>

(* ---------------------- receiver: current client ----------------------- *)
\* _read_exact, top of the loop: leave when remaining <= 0; otherwise, with
\* 4 or more bytes waiting, read 4 and drop them if they are the retry marker
PeekKeeps(pm) == pm # RETRY_MARKER

R_Top ==
    /\ r_pc = "rx_top"
    /\ rfault # "read"
    /\ IF remaining <= 0 THEN
            /\ r_pc' = "drain"
            /\ extra' = <<>>
            /\ ndrain' = 0
            /\ UNCHANGED <<s2c, rbuf, remaining>>
       ELSE IF Len(s2c) >= 4 THEN
            LET pm == SubSeq(s2c, 1, 4)
            IN /\ s2c' = SubSeq(s2c, 5, Len(s2c))
               /\ IF PeekKeeps(pm)
                  THEN /\ rbuf' = rbuf \o pm
                       /\ remaining' = remaining - 4
                       /\ r_pc' = "rx_chunk"
                  ELSE /\ r_pc' = "rx_top"
                       /\ UNCHANGED <<rbuf, remaining>>
               /\ UNCHANGED <<extra, ndrain>>
       ELSE /\ r_pc' = "rx_chunk"
            /\ UNCHANGED <<s2c, rbuf, remaining, extra, ndrain>>
    /\ UNCHANGED <<cfgVars, expected, sVars, c2s, window, startres, tsize, cycle, r_result, saved, r_acks>>

\* _read_exact: the blocking read of min(chunk_size, remaining) bytes
R_Chunk ==
    /\ r_pc = "rx_chunk"
    /\ LET to_read == Min(ClientChunk, remaining)
       IN IF to_read <= 0 THEN
               /\ r_pc' = "rx_top"
               /\ UNCHANGED <<s2c, c2s, rbuf, remaining, r_result, r_acks>>
          ELSE IF Len(s2c) >= to_read THEN
               /\ rbuf' = rbuf \o SubSeq(s2c, 1, to_read)
               /\ s2c' = SubSeq(s2c, to_read + 1, Len(s2c))
               /\ remaining' = remaining - to_read
               /\ r_pc' = "rx_top"
               /\ UNCHANGED <<c2s, r_result, r_acks>>
          ELSE /\ SBlocked
               /\ IF s2c # <<>> THEN
                       /\ rbuf' = rbuf \o s2c
                       /\ s2c' = <<>>
                       /\ remaining' = remaining - Len(s2c)
                       /\ r_pc' = "rx_top"
                       /\ UNCHANGED <<c2s, r_result, r_acks>>
                  ELSE \* inactivity timeout: report and return False
                       /\ c2s' = c2s \o StatusWritten(AckStatusV5(Len(rbuf), expected))
                       /\ r_acks' = r_acks \o StatusWritten(AckStatusV5(Len(rbuf), expected))
                       /\ r_pc' = "done"
                       /\ r_result' = "fail"
                       /\ UNCHANGED <<s2c, rbuf, remaining>>
    /\ UNCHANGED <<cfgVars, expected, sVars, window, startres, tsize, extra, ndrain, cycle, saved>>

\* drain of the trailer: one read of up to 100 bytes with the 1 s timeout
R_Drain ==
    /\ r_pc = "drain"
    /\ LET k == Min(DrainChunkV5, Len(s2c))
           e == extra \o SubSeq(s2c, 1, k)
       IN /\ s2c' = SubSeq(s2c, k + 1, Len(s2c))
          /\ extra' = e
          /\ ndrain' = ndrain + 1
          /\ r_pc' = IF k = 0 \/ Contains(e, FIN_TEXT) THEN "ack" ELSE "drain"
    /\ UNCHANGED <<cfgVars, expected, sVars, c2s, window, startres, tsize, rbuf, remaining, cycle, r_result, saved, r_acks>>

\* the JPEG check of receive_image
JpegValid(b) ==
    /\ Len(b) >= 2 /\ b[1] = 255 /\ b[2] = 216
    /\ Len(b) >= 2 /\ b[Len(b) - 1] = 255 /\ b[Len(b)] = 217

SuccessFinal(received_bytes, b) == received_bytes = expected /\ JpegValid(b)

\* final ACK, file written, result returned
R_Ack ==
    /\ r_pc = "ack"
    /\ c2s' = c2s \o StatusWritten(AckStatusV5(Len(rbuf), expected))
    /\ r_acks' = r_acks \o StatusWritten(AckStatusV5(Len(rbuf), expected))
    /\ saved' = <<rbuf>>
    /\ r_result' = IF SuccessFinal(Len(rbuf), rbuf) THEN "ok" ELSE "fail"
    /\ r_pc' = "done"
    /\ UNCHANGED <<cfgVars, expected, sVars, s2c, window, startres, tsize, rbuf, remaining, extra, ndrain, cycle>>

(* ---------------------- receiver: earlier client ----------------------- *)
\* a cut that takes one byte too many
TruncateShort(b, n) == IF Len(b) >= n THEN SubSeq(b, 1, n - 1) ELSE b

\* step 4 of receive_with_ack: success flag, truncation, file
Truncate(b, n) == IF Len(b) > n THEN SubSeq(b, 1, n) ELSE b

BkFinal(b) ==
    /\ rbuf' = Truncate(b, tsize)
    /\ saved' = IF Truncate(b, tsize) # <<>> THEN <<Truncate(b, tsize)>> ELSE saved
    /\ r_result' = IF Len(b) >= tsize THEN "ok" ELSE "fail"
    /\ r_pc' = "done"

\* _read_exact(transmitted_size): one blocking read; an empty read ends it
R_BkChunk ==
    /\ r_pc = "bk_chunk"
    /\ rfault # "read"
    /\ LET to_read == Min(ClientChunk, remaining)
       IN IF Len(s2c) >= to_read THEN
               /\ rbuf' = rbuf \o SubSeq(s2c, 1, to_read)
               /\ s2c' = SubSeq(s2c, to_read + 1, Len(s2c))
               /\ remaining' = remaining - to_read
               /\ r_pc' = IF remaining - to_read > 0 THEN "bk_chunk" ELSE "bk_drain"
          ELSE /\ SBlocked
               /\ rbuf' = rbuf \o s2c
               /\ s2c' = <<>>
               /\ remaining' = remaining - Len(s2c)
               /\ r_pc' = IF s2c # <<>> THEN "bk_chunk" ELSE "bk_drain"
    /\ UNCHANGED <<cfgVars, expected, sVars, c2s, window, startres, tsize, extra, ndrain, cycle, r_result, saved, r_acks>>

\* trailer drain (one read of up to 1000 bytes, 0.5 s) and the initial ACK
R_BkDrainAck ==
    /\ r_pc = "bk_drain"
    /\ LET k == Min(DrainReadBk, Len(s2c))
       IN /\ extra' = SubSeq(s2c, 1, k)
          /\ ndrain' = 1
          /\ s2c' = SubSeq(s2c, k + 1, Len(s2c))
    /\ c2s' = c2s \o StatusWritten(AckStatusBk(Len(rbuf), tsize))
    /\ r_acks' = r_acks \o StatusWritten(AckStatusBk(Len(rbuf), tsize))
    /\ cycle' = 0
    /\ r_pc' = "bk_cycle"
    /\ UNCHANGED <<cfgVars, expected, sVars, window, startres, tsize, rbuf, remaining, r_result, saved>>

\* top of the correction loop
R_BkCycle ==
    /\ r_pc = "bk_cycle"
    /\ IF cycle >= MaxCorrectionCycles \/ Len(rbuf) >= tsize
       THEN BkFinal(rbuf) /\ UNCHANGED <<window, remaining>>
       ELSE /\ window' = <<>>
            /\ r_pc' = "wait_retry"
            /\ UNCHANGED <<rbuf, saved, r_result, remaining>>
    /\ UNCHANGED <<cfgVars, expected, sVars, s2c, c2s, startres, tsize, extra, ndrain, cycle, r_acks>>

\* a correction read of the whole declared size
CorrectionLengthWhole == tsize

\* missing_bytes of a correction cycle: what the buffer lacks
CorrectionLength == tsize - Len(rbuf)

\* _wait_retry_marker: one byte read
R_RetryByte ==
    /\ r_pc = "wait_retry"
    /\ s2c # <<>>
    /\ s2c' = Tail(s2c)
    /\ LET w == Slide(window, Head(s2c), Len(RETRY_MARKER))
       IN /\ window' = w
          /\ IF w = RETRY_MARKER
             THEN r_pc' = "bk_fix" /\ remaining' = CorrectionLength
             ELSE r_pc' = "wait_retry" /\ remaining' = remaining
    /\ UNCHANGED <<cfgVars, expected, sVars, c2s, startres, tsize, rbuf, extra, ndrain, cycle, r_result, saved, r_acks>>

\* _wait_retry_marker: no retransmission came; the loop is left
R_RetryTimeout ==
    /\ r_pc = "wait_retry"
    /\ s2c = <<>>
    /\ SBlocked
    /\ BkFinal(rbuf)
    /\ UNCHANGED <<cfgVars, expected, sVars, s2c, c2s, window, startres, tsize, remaining, extra, ndrain, cycle, r_acks>>

\* _read_exact(missing_bytes) of a correction cycle; when it ends the ACK of
\* the cycle is written and the loop goes on or is left
R_BkFix ==
    /\ r_pc = "bk_fix"
    /\ LET to_read == Min(ClientChunk, remaining)
           full == Len(s2c) >= to_read
           chunk == IF full THEN SubSeq(s2c, 1, to_read) ELSE s2c
           b == rbuf \o chunk
           ends == IF full THEN remaining - to_read <= 0 ELSE s2c = <<>>
       IN /\ full \/ SBlocked
          /\ s2c' = SubSeq(s2c, Len(chunk) + 1, Len(s2c))
          /\ remaining' = remaining - Len(chunk)
          /\ IF ~ends THEN
                  /\ rbuf' = b
                  /\ r_pc' = "bk_fix"
                  /\ UNCHANGED <<c2s, r_acks, cycle, saved, r_result>>
             ELSE /\ c2s' = c2s \o StatusWritten(AckStatusBk(Len(b), tsize))
                  /\ r_acks' = r_acks \o StatusWritten(AckStatusBk(Len(b), tsize))
                  /\ IF Len(b) >= tsize
                     THEN BkFinal(b) /\ UNCHANGED cycle
                     ELSE /\ rbuf' = b
                          /\ cycle' = cycle + 1
                          /\ r_pc' = "bk_cycle"
                          /\ UNCHANGED <<saved, r_result>>
    /\ UNCHANGED <<cfgVars, expected, sVars, window, startres, tsize, extra, ndrain>>

(* ------------------- the server and the client programs ---------------- *)
\* text on the server-to-client stream is bytes
RESP_OK == <<79, 75, 124>>
RESP_BAD == <<66, 65, 68, 124>>
NO_IMAGE == <<78, 79, 95, 73, 77, 65, 71, 69>>
CRLFBytes == <<13, 10>>

\* str(n).encode("utf-8")
StrBytes(n) == [i \in 1..Len(Str(n)) |-> 48 + DigitVal(Str(n)[i])]

\* the size names a client asks for: two of RESOLUTIONS and a word that is
\* not one of them
SizeNames == {"THUMBNAIL", "HD_READY", "OTHER"}

\* the command line of send_command
FotoCommand(resolution) == <<"<", "FOTO:", "{size_name:", resolution, "}", ">", CRLF>>

\* parse_command on the FOTO pattern: the command name, or "none"
parse_command(line) ==
    LET l == Strip(line)
    IN IF Len(l) = 6 /\ SubSeq(l, 1, 3) = <<"<", "FOTO:", "{size_name:">>
            /\ l[4] \in SizeNames /\ SubSeq(l, 5, 6) = <<"}", ">">>
       THEN "FOTO" ELSE "none"

\* a count that is one too large
StatusCountOff(photo) == Len(photo) + 1

\* the count the FOTO handler puts in its OK line
StatusCount(photo) == Len(photo)

\* the status line of the FOTO handler for a captured image
OkStatus(photo) == RESP_OK \o StrBytes(StatusCount(photo)) \o CRLFBytes
BadStatus == RESP_BAD \o NO_IMAGE \o CRLFBytes

\* main of the clients: send_command
CL_Command ==
    /\ r_pc = "cl_cmd"
    /\ \E resolution \in SizeNames : c2s' = Append(c2s, FotoCommand(resolution))
    /\ s2c' = <<>>
    /\ r_pc' = "cl_resp"
    /\ UNCHANGED <<cfgVars, expected, sVars, window, startres, tsize, rbuf, remaining, extra, ndrain, cycle, r_result, saved, r_acks>>

\* the server loop reads a line; on FOTO it captures, answers BAD|NO_IMAGE when
\* there is no image (none, or an empty one) and reads on, or answers
\* OK|<len> and calls the send function
SV_Command ==
    /\ s_pc = "sv_cmd"
    /\ c2s # <<>>
    /\ c2s' = Tail(c2s)
    /\ IF parse_command(Head(c2s)) # "FOTO" THEN UNCHANGED <<s2c, wire, s_pc>>
       ELSE IF ~camera \/ data = <<>> THEN
            /\ s2c' = Put(BadStatus)
            /\ wire' = wire \o BadStatus
            /\ s_pc' = "sv_cmd"
       ELSE /\ s2c' = Put(OkStatus(data))
            /\ wire' = wire \o OkStatus(data)
            /\ s_pc' = IF tx = "robust" THEN "wait_ready" ELSE "preamble"
    /\ UNCHANGED <<cfgVars, expected, rVars, sent, retry, missing_bytes, s_result, nwaits, nretx, lastRetx, ackFirst, ackUniform, outq, accepted, prun, drained>>

\* bytes up to and including the first LF, as readline returns them
RECURSIVE FirstLine(_)
FirstLine(b) == IF b = <<>> THEN <<>> ELSE IF Head(b) = 10 THEN <<10>> ELSE <<Head(b)>> \o FirstLine(Tail(b))

HasLine(b) == \E i \in 1..Len(b) : b[i] = 10

\* bytes.strip() of a line
RECURSIVE StripBytes(_)
StripBytes(b) ==
    IF b # <<>> /\ Head(b) \in {13, 10, 32} THEN StripBytes(Tail(b))
    ELSE IF b # <<>> /\ b[Len(b)] \in {13, 10, 32} THEN StripBytes(SubSeq(b, 1, Len(b) - 1))
    ELSE b

\* response.split("|")[1]
RECURSIVE UpToBar(_)
UpToBar(b) == IF b = <<>> \/ Head(b) = 124 THEN <<>> ELSE <<Head(b)>> \o UpToBar(Tail(b))

RECURSIVE AfterBar(_)
AfterBar(b) == IF b = <<>> THEN <<>> ELSE IF Head(b) = 124 THEN Tail(b) ELSE AfterBar(Tail(b))

RECURSIVE IntOfDigits(_)
IntOfDigits(b) == IF b = <<>> THEN 0 ELSE IntOfDigits(SubSeq(b, 1, Len(b) - 1)) * 10 + (b[Len(b)] - 48)

\* int(response.split("|")[1]): ok is FALSE where it raises
ParseCount(response) ==
    LET f == UpToBar(AfterBar(response))
    IN IF f # <<>> /\ \A i \in 1..Len(f) : f[i] \in 48..57
       THEN [ok |-> TRUE, val |-> IntOfDigits(f)]
       ELSE [ok |-> FALSE, val |-> 0]

\* main of the clients: wait_for_response reads a line; a line that starts
\* with OK| gives the expected size and the receive session begins, one that
\* starts with BAD| ends the program, any other line is skipped
CL_Response ==
    /\ r_pc = "cl_resp"
    /\ HasLine(s2c)
    /\ LET lb == FirstLine(s2c)
           line == StripBytes(lb)
       IN /\ s2c' = SubSeq(s2c, Len(lb) + 1, Len(s2c))
          /\ IF StartsWith(line, RESP_OK) THEN
                  /\ expected' = ParseCount(line).val
                  /\ r_pc' = IF rx = "v5" THEN "ready"
                             ELSE IF ParseCount(line).ok THEN "wait_marker" ELSE "done"
             ELSE IF StartsWith(line, RESP_BAD) THEN
                  /\ r_pc' = "done"
                  /\ UNCHANGED expected
             ELSE UNCHANGED <<r_pc, expected>>
    /\ UNCHANGED <<cfgVars, sVars, c2s, window, startres, tsize, rbuf, remaining, extra, ndrain, cycle, r_result, saved, r_acks>>

(* --------------------------- specification ----------------------------- *)
Next ==
    \/ S_ReadyLine \/ S_ReadyTimeout \/ S_Preamble \/ S_HeaderFault
    \/ S_Chunk \/ S_ChunkFault \/ S_Trailer \/ S_DrainTimeout \/ L_Transmit \/ L_Babble
    \/ S_AckLine \/ S_AckTimeout \/ E_Line
    \/ R_Ready \/ R_MarkerByte \/ R_MarkerTimeout \/ R_ReadSize \/ R_SizeTimeout \/ R_ReadFault
    \/ R_Top \/ R_Chunk \/ R_Drain \/ R_Ack
    \/ R_BkChunk \/ R_BkDrainAck \/ R_BkCycle \/ R_RetryByte \/ R_RetryTimeout \/ R_BkFix

Spec == Init /\ [][Next]_vars

\* the server program answering the FOTO command of a client program, over a
\* port without faults
InitServer ==
    /\ tx \in {"robust", "ack"}
    /\ rx \in {"v5", "bk"}
    /\ data \in Payloads
    /\ camera \in BOOLEAN
    /\ lossm = 0
    /\ lossTrailer = FALSE
    /\ wfault = "none"
    /\ rfault = "none"
    /\ noise = <<>>
    /\ chan = "free"
    /\ wpartial = FALSE
    /\ expected = 0
    /\ s2c = <<>>
    /\ c2s = <<>>
    /\ s_pc = "sv_cmd"
    /\ sent = 0
    /\ retry = 0
    /\ missing_bytes = 0
    /\ s_result = "none"
    /\ nwaits = 0
    /\ nretx = 0
    /\ lastRetx = <<>>
    /\ ackFirst = <<>>
    /\ ackUniform = TRUE
    /\ outq = <<>>
    /\ accepted = <<>>
    /\ prun = 0
    /\ drained = FALSE
    /\ wire = <<>>
    /\ r_pc = "cl_cmd"
    /\ window = <<>>
    /\ startres = "none"
    /\ tsize = -1
    /\ rbuf = <<>>
    /\ remaining = 0
    /\ extra = <<>>
    /\ ndrain = 0
    /\ cycle = 0
    /\ r_result = "none"
    /\ saved = <<>>
    /\ r_acks = <<>>
    /\ TestIdle
    /\ ClockIdle

NextServer ==
    \/ CL_Command \/ SV_Command \/ CL_Response
    \/ S_ReadyLine \/ S_ReadyTimeout \/ S_Preamble \/ S_Chunk \/ S_Trailer
    \/ S_AckLine \/ S_AckTimeout
    \/ R_Ready \/ R_MarkerByte \/ R_ReadSize
    \/ R_Top \/ R_Chunk \/ R_Drain \/ R_Ack
    \/ R_BkChunk \/ R_BkDrainAck \/ R_BkCycle

SpecServer == InitServer /\ [][NextServer]_vars

\* one receiver object and one transmitter object used for several transfers,
\* one after another, over a link that loses nothing
InitReuse ==
    /\ tx \in {"robust", "ack"}
    /\ rx \in {"v5", "bk"}
    /\ data \in Payloads
    /\ Len(data) > 0
    /\ camera = TRUE
    /\ lossm = 0
    /\ lossTrailer = FALSE
    /\ wfault = "none"
    /\ rfault = "none"
    /\ noise = <<>>
    /\ chan = "free"
    /\ wpartial = FALSE
    /\ expected = Len(data)
    /\ s2c = <<>>
    /\ c2s = <<>>
    /\ s_pc = IF tx = "robust" THEN "wait_ready" ELSE "preamble"
    /\ sent = 0
    /\ retry = 0
    /\ missing_bytes = 0
    /\ s_result = "none"
    /\ nwaits = 0
    /\ nretx = 0
    /\ lastRetx = <<>>
    /\ ackFirst = <<>>
    /\ ackUniform = TRUE
    /\ outq = <<>>
    /\ accepted = <<>>
    /\ prun = 0
    /\ drained = FALSE
    /\ wire = <<>>
    /\ r_pc = IF rx = "v5" THEN "ready" ELSE "wait_marker"
    /\ window = <<>>
    /\ startres = "none"
    /\ tsize = -1
    /\ rbuf = <<>>
    /\ remaining = 0
    /\ extra = <<>>
    /\ ndrain = 0
    /\ cycle = 0
    /\ r_result = "none"
    /\ saved = <<>>
    /\ r_acks = <<>>
    /\ TestIdle
    /\ ClockIdle

\* both session functions have returned and are called again on the same
\* objects: the locals of the calls start afresh, the port is empty, and
\* self.received_data is whatever the last call left in it; in the new
\* session the port of the receiver may fail
R_NextSession ==
    /\ r_pc = "done"
    /\ s_pc = "done"
    /\ data' \in Payloads
    /\ Len(data') > 0
    /\ expected' = Len(data')
    /\ rfault' \in {"none", "read_early"}
    /\ s2c' = <<>>
    /\ c2s' = <<>>
    /\ s_pc' = IF tx = "robust" THEN "wait_ready" ELSE "preamble"
    /\ sent' = 0
    /\ retry' = 0
    /\ missing_bytes' = 0
    /\ s_result' = "none"
    /\ nwaits' = 0
    /\ nretx' = 0
    /\ lastRetx' = <<>>
    /\ ackFirst' = <<>>
    /\ ackUniform' = TRUE
    /\ outq' = <<>>
    /\ accepted' = <<>>
    /\ prun' = 0
    /\ drained' = FALSE
    /\ wire' = <<>>
    /\ r_pc' = IF rx = "v5" THEN "ready" ELSE "wait_marker"
    /\ window' = <<>>
    /\ startres' = "none"
    /\ tsize' = -1
    /\ remaining' = 0
    /\ extra' = <<>>
    /\ ndrain' = 0
    /\ cycle' = 0
    /\ r_result' = "none"
    /\ saved' = <<>>
    /\ r_acks' = <<>>
    /\ UNCHANGED <<tx, rx, lossm, lossTrailer, wfault, noise, camera, chan, wpartial, rbuf, tVars, clockVars>>

NextReuse ==
    \/ S_ReadyLine \/ S_ReadyTimeout \/ S_Preamble \/ S_Chunk \/ S_Trailer
    \/ S_AckLine \/ S_AckTimeout
    \/ R_Ready \/ R_MarkerByte \/ R_ReadSize \/ R_EarlyFault
    \/ R_Top \/ R_Chunk \/ R_Drain \/ R_Ack
    \/ R_BkChunk \/ R_BkDrainAck \/ R_BkCycle
    \/ R_NextSession

SpecReuse == InitReuse /\ [][NextReuse]_vars

(* --------------------------- test programs ----------------------------- *)
\* test/test_uart_server.py answering the lines of test/test_uart_client.py.
\* Here a line is a sequence of characters closed by the "\r\n" token; the
\* fixed words of the answers are single tokens.
LowerChars == <<"a", "c", "e", "g", "h", "i", "n", "o", "p", "q", "t", "u">>
UpperChars == <<"A", "C", "E", "G", "H", "I", "N", "O", "P", "Q", "T", "U">>

\* str.upper() on one character and on a line
UpperChar(c) ==
    IF \E i \in 1..Len(LowerChars) : LowerChars[i] = c
    THEN UpperChars[CHOOSE i \in 1..Len(LowerChars) : LowerChars[i] = c]
    ELSE c
Upper(l) == [i \in 1..Len(l) |-> UpperChar(l[i])]

CmdPing == <<"P", "I", "N", "G">>
CmdEcho == <<"E", "C", "H", "O">>
CmdData == <<"D", "A", "T", "A">>
CmdStatus == <<"S", "T", "A", "T", "U", "S">>
CmdQuit == <<"Q", "U", "I", "T">>

\* datetime.now(): the clock readings a run may see
Clocks == {[h |-> "09", m |-> "15", s |-> "00"], [h |-> "23", m |-> "59", s |-> "59"]}

\* the lines a client may write
TestTexts ==
    {CmdPing, <<"p", "i", "n", "g">>, CmdData, CmdStatus, CmdQuit, <<"q", "u", "i", "t">>,
     CmdEcho, CmdEcho \o <<" ", "h", "i">>, <<"e", "c", "h", "o">> \o <<" ", "A">>,
     CmdEcho \o <<" ", "a", " ", "q">>, CmdEcho \o <<"E", "S">>,
     <<"P", "I", "N", "G", "S">>, <<"F", "O", "O">>, <<>>, <<" ">>}
TestLines == {t \o <<CRLF>> : t \in TestTexts}

\* line[5:] if len(line) > 5 else "VACIO"
EchoText(line) == IF Len(line) > 5 THEN SubSeq(line, 6, Len(line)) ELSE <<"VACIO">>

\* the answer of one pass of the server's loop to a stripped, non-empty line
Response(line, count, clk) ==
    IF Upper(line) = CmdPing THEN <<"PONG">>
    ELSE IF StartsWith(Upper(line), CmdEcho) THEN <<"ECO", ":", " ">> \o EchoText(line)
    ELSE IF Upper(line) = CmdData THEN <<"DATOS_PRUEBA", "_">> \o Str(count) \o <<"_", clk.h, clk.m, clk.s>>
    ELSE IF Upper(line) = CmdStatus
         THEN <<"OK", "|", "MSGS", ":">> \o Str(count) \o <<"|", "TIME", ":", clk.h, ":", clk.m, ":", clk.s>>
    ELSE IF Upper(line) = CmdQuit THEN <<"BYE">>
    ELSE <<"UNKNOWN_CMD", ":", " ">> \o line

\* a loop that no command ends
LeavesLoopNever(line) == FALSE

\* the QUIT branch leaves the loop
LeavesLoop(line) == Upper(line) = CmdQuit

\* send_command of the client: one line written to the port
T_ClientLine ==
    /\ t_pc \in {"serving", "closed"}
    /\ t_sent < MaxMsgs
    /\ \E l \in TestLines : t_in' = Append(t_in, l)
    /\ t_sent' = t_sent + 1
    /\ UNCHANGED <<tx, rx, data, lossm, lossTrailer, wfault, rfault, noise, camera, chan, wpartial,
                   expected, sVars, rVars, s2c, c2s, t_pc, message_count, t_out, clockVars>>

\* one pass of the server's loop: readline, strip; an empty line is skipped,
\* any other is counted and answered with one line
T_Serve ==
    /\ t_pc = "serving"
    /\ t_in # <<>>
    /\ t_in' = Tail(t_in)
    /\ LET line == Strip(Head(t_in))
       IN IF line = <<>>
          THEN UNCHANGED <<t_pc, message_count, t_out>>
          ELSE /\ message_count' = message_count + 1
               /\ \E clk \in Clocks :
                    t_out' = Append(t_out, Response(line, message_count + 1, clk) \o <<CRLF>>)
               /\ t_pc' = IF LeavesLoop(line) THEN "closed" ELSE "serving"
    /\ UNCHANGED <<tx, rx, data, lossm, lossTrailer, wfault, rfault, noise, camera, chan, wpartial,
                   expected, sVars, rVars, s2c, c2s, t_sent, clockVars>>

\* the port raises SerialException, or the user interrupts: the loop is left
T_PortError ==
    /\ t_pc = "serving"
    /\ t_pc' = "closed"
    /\ UNCHANGED <<tx, rx, data, lossm, lossTrailer, wfault, rfault, noise, camera, chan, wpartial,
                   expected, sVars, rVars, s2c, c2s, message_count, t_in, t_out, t_sent, clockVars>>

InitTest ==
    /\ tx = "robust"
    /\ rx = "v5"
    /\ data = <<>>
    /\ camera = TRUE
    /\ lossm = 0
    /\ lossTrailer = FALSE
    /\ wfault = "none"
    /\ rfault = "none"
    /\ noise = <<>>
    /\ chan = "free"
    /\ wpartial = FALSE
    /\ expected = 0
    /\ s2c = <<>>
    /\ c2s = <<>>
    /\ s_pc = "done"
    /\ sent = 0
    /\ retry = 0
    /\ missing_bytes = 0
    /\ s_result = "none"
    /\ nwaits = 0
    /\ nretx = 0
    /\ lastRetx = <<>>
    /\ ackFirst = <<>>
    /\ ackUniform = TRUE
    /\ outq = <<>>
    /\ accepted = <<>>
    /\ prun = 0
    /\ drained = FALSE
    /\ wire = <<>>
    /\ r_pc = "done"
    /\ window = <<>>
    /\ startres = "none"
    /\ tsize = -1
    /\ rbuf = <<>>
    /\ remaining = 0
    /\ extra = <<>>
    /\ ndrain = 0
    /\ cycle = 0
    /\ r_result = "none"
    /\ saved = <<>>
    /\ r_acks = <<>>
    /\ t_pc = "serving"
    /\ message_count = 0
    /\ t_in = <<>>
    /\ t_out = <<>>
    /\ t_sent = 0
    /\ ClockIdle

NextTest == T_ClientLine \/ T_Serve \/ T_PortError

SpecTest == InitTest /\ [][NextTest]_vars

(* ------------------- the clocks of a session with loss ------------------ *)
\* Times are hundredths of a second.  The session is taken up where the
\* robust transmitter has written the last chunk and the current client is
\* inside _read_exact: what is left of it is sleeps, timed reads and two
\* deadlines.
StabilizePause == 100
MarkerGap == 20
AckTimeout == 6000
SenderPortTimeout == 200
AckLoopPause == 10
RetryMarkerPause == 10
RetryChunk == 64
RetryChunkPause == 2
RetryEndPause == 50
CyclePause == 100
ClientPortTimeout == 1000
InactivityTimeout == 6000
DrainTimeout == 100
AckPause == 100

\* what no step of a timed session changes
sessionCfg == <<tx, rx, data, lossm, lossTrailer, wfault, rfault, noise, camera, chan, wpartial, tVars>>

InitTimed ==
    /\ tx = "robust"
    /\ rx = "v5"
    /\ data \in Payloads
    /\ size > 0
    /\ lossm \in 1..size
    /\ lossTrailer \in BOOLEAN
    /\ wfault = "none"
    /\ rfault = "none"
    /\ noise = <<>>
    /\ camera = TRUE
    /\ expected = size
    /\ chan = "free"
    /\ wpartial = FALSE
    /\ s2c = Delivered(0, size)
    /\ c2s = <<>>
    /\ s_pc = "tm_stabilize"
    /\ sent = size
    /\ retry = 0
    /\ missing_bytes = 0
    /\ s_result = "none"
    /\ nwaits = 0
    /\ nretx = 0
    /\ lastRetx = <<>>
    /\ ackFirst = <<>>
    /\ ackUniform = TRUE
    /\ outq = <<>>
    /\ accepted = data
    /\ prun = 0
    /\ drained = TRUE
    /\ wire = START_MARKER \o Pack(size) \o data
    \* the payload reached the port before the first pass of the loop, or
    \* while its read was already waiting
    /\ r_pc \in {"tm_top", "tm_read"}
    /\ window = START_MARKER
    /\ startres = "true"
    /\ tsize = size
    /\ rbuf = <<>>
    /\ remaining = size
    /\ extra = <<>>
    /\ ndrain = 0
    /\ cycle = 0
    /\ r_result = "none"
    /\ saved = <<>>
    /\ r_acks = <<>>
    /\ TestIdle
    /\ now = 0
    /\ s_wake = StabilizePause
    /\ deadline = 0
    /\ r_wake = ClientPortTimeout
    /\ last_data_time = 0

\* the trailer as the link delivers it
TrailerPut(b) == IF lossTrailer THEN s2c ELSE Put(b)

\* the stabilization pause is over: END_MARKER, flush, sleep(0.2)
Tm_EndMarker ==
    /\ s_pc = "tm_stabilize"
    /\ now = s_wake
    /\ s2c' = TrailerPut(END_MARKER)
    /\ wire' = wire \o END_MARKER
    /\ s_pc' = "tm_gap"
    /\ s_wake' = now + MarkerGap
    /\ UNCHANGED <<sessionCfg, expected, rVars, c2s, sent, retry, missing_bytes, s_result, nwaits, nretx,
                   lastRetx, ackFirst, ackUniform, outq, accepted, prun, drained, now, deadline, r_wake, last_data_time>>

\* END_TEXT, flush, sleep(0.2)
Tm_EndText ==
    /\ s_pc = "tm_gap"
    /\ now = s_wake
    /\ s2c' = TrailerPut(END_TEXT)
    /\ wire' = wire \o END_TEXT
    /\ s_pc' = "tm_before_wait"
    /\ s_wake' = now + MarkerGap
    /\ UNCHANGED <<sessionCfg, expected, rVars, c2s, sent, retry, missing_bytes, s_result, nwaits, nretx,
                   lastRetx, ackFirst, ackUniform, outq, accepted, prun, drained, now, deadline, r_wake, last_data_time>>

\* _wait_for_ack is entered: the deadline is set and the first readline starts
Tm_WaitForAck ==
    /\ s_pc = "tm_before_wait"
    /\ now = s_wake
    /\ deadline' = now + AckTimeout
    /\ nwaits' = nwaits + 1
    /\ s_pc' = "tm_readline"
    /\ s_wake' = now + SenderPortTimeout
    /\ UNCHANGED <<sessionCfg, expected, rVars, s2c, c2s, sent, retry, missing_bytes, s_result, nretx,
                   lastRetx, ackFirst, ackUniform, outq, accepted, prun, drained, wire, now, r_wake, last_data_time>>

\* the pauses of _send_missing_bytes and the one before the next ACK cycle
RetxPauses(n) ==
    RetryMarkerPause + ((n + RetryChunk - 1) \div RetryChunk) * RetryChunkPause + RetryEndPause + CyclePause

\* the verification cycle after _wait_for_ack returned (ok, missing)
TmAfterAck(ok, missing) ==
    /\ missing_bytes' = missing
    /\ IF ok THEN
           /\ s_pc' = "done" /\ s_result' = "ok"
           /\ UNCHANGED <<s2c, wire, retry, nretx, lastRetx, s_wake>>
       ELSE IF missing <= 0 \/ RetriesExhausted(retry) \/ RetxInvalid(size - missing, missing) THEN
           /\ s_pc' = "done" /\ s_result' = "fail"
           /\ UNCHANGED <<s2c, wire, retry, nretx, lastRetx, s_wake>>
       ELSE
           /\ s2c' = Put(RETRY_MARKER \o MissingData(size - missing, missing))
           /\ wire' = wire \o RETRY_MARKER \o MissingData(size - missing, missing)
           /\ lastRetx' = <<[n |-> size - missing, bytes |-> RETRY_MARKER \o MissingData(size - missing, missing)]>>
           /\ nretx' = nretx + 1
           /\ retry' = retry + 1
           /\ s_pc' = "tm_before_wait" /\ s_result' = s_result
           /\ s_wake' = now + RetxPauses(Len(MissingData(size - missing, missing)))

\* the loop test of _wait_for_ack
TmLoopTest ==
    IF now < deadline
    THEN /\ s_pc' = "tm_readline"
         /\ s_wake' = now + SenderPortTimeout
         /\ UNCHANGED <<s2c, wire, retry, nretx, lastRetx, missing_bytes, s_result>>
    ELSE TmAfterAck(FALSE, 0)

\* readline returns a line as soon as one is there
Tm_AckLine ==
    /\ s_pc = "tm_readline"
    /\ c2s # <<>>
    /\ c2s' = Tail(c2s)
    /\ LET l == Strip(Head(c2s))
           w == WaitForAck(l)
       IN IF w.done
          THEN /\ TmAfterAck(w.ok, w.missing)
               /\ ackFirst' = IF ackFirst = <<>> THEN <<l>> ELSE ackFirst
               /\ ackUniform' = (ackUniform /\ (ackFirst = <<>> \/ ackFirst = <<l>>))
          ELSE /\ IF l = <<>>
                  THEN TmLoopTest
                  ELSE /\ s_pc' = "tm_loop_sleep"
                       /\ s_wake' = now + AckLoopPause
                       /\ UNCHANGED <<s2c, wire, retry, nretx, lastRetx, missing_bytes, s_result>>
               /\ UNCHANGED <<ackFirst, ackUniform>>
    /\ UNCHANGED <<sessionCfg, expected, rVars, sent, nwaits, outq, accepted, prun, drained, now, deadline,
                   r_wake, last_data_time>>

\* readline returns empty at the port timeout, or the sleep after a line
\* that is no status is over: the deadline is looked at
Tm_AckLoop ==
    /\ \/ s_pc = "tm_readline" /\ c2s = <<>>
       \/ s_pc = "tm_loop_sleep"
    /\ now = s_wake
    /\ TmLoopTest
    /\ UNCHANGED <<sessionCfg, expected, rVars, c2s, sent, nwaits, ackFirst, ackUniform, outq, accepted, prun,
                   drained, now, deadline, r_wake, last_data_time>>

\* _read_exact, top of the loop, and the start of its blocking read
Tm_Top ==
    /\ r_pc = "tm_top"
    /\ IF remaining <= 0 THEN
            /\ r_pc' = "tm_drain"
            /\ r_wake' = now + DrainTimeout
            /\ extra' = <<>>
            /\ ndrain' = 0
            /\ UNCHANGED <<s2c, rbuf, remaining, last_data_time>>
       ELSE IF Len(s2c) >= 4 THEN
            LET pm == SubSeq(s2c, 1, 4)
            IN /\ s2c' = SubSeq(s2c, 5, Len(s2c))
               /\ IF PeekKeeps(pm)
                  THEN /\ rbuf' = rbuf \o pm
                       /\ remaining' = remaining - 4
                       /\ last_data_time' = now
                       /\ r_pc' = "tm_read"
                       /\ r_wake' = now + ClientPortTimeout
                  ELSE /\ r_pc' = "tm_top"
                       /\ UNCHANGED <<rbuf, remaining, last_data_time, r_wake>>
               /\ UNCHANGED <<extra, ndrain>>
       ELSE /\ r_pc' = "tm_read"
            /\ r_wake' = now + ClientPortTimeout
            /\ UNCHANGED <<s2c, rbuf, remaining, extra, ndrain, last_data_time>>
    /\ UNCHANGED <<sessionCfg, expected, sVars, c2s, window, startres, tsize, cycle, r_result, saved, r_acks,
                   now, s_wake, deadline>>

\* the read of _read_exact has all it asked for
ReadFilled == Min(ClientChunk, remaining) <= 0 \/ Len(s2c) >= Min(ClientChunk, remaining)

\* time.time() - last_data_time > inactivity_timeout; when the reads took
\* their timeout and nothing more, the comparison can go either way
Expired(late) ==
    \/ now - last_data_time > InactivityTimeout
    \/ now - last_data_time = InactivityTimeout /\ late

\* the blocking read of _read_exact returns: at once with what it asked for,
\* at the port timeout with what there is
Tm_Read ==
    /\ r_pc = "tm_read"
    /\ ReadFilled \/ now = r_wake
    /\ LET to_read == Min(ClientChunk, remaining)
           chunk == SubSeq(s2c, 1, Min(Max(to_read, 0), Len(s2c)))
       IN IF chunk # <<>> THEN
               /\ rbuf' = rbuf \o chunk
               /\ s2c' = SubSeq(s2c, Len(chunk) + 1, Len(s2c))
               /\ remaining' = remaining - Len(chunk)
               /\ last_data_time' = now
               /\ r_pc' = "tm_top"
               /\ UNCHANGED <<c2s, r_result, r_acks>>
          ELSE \E late \in BOOLEAN :
               IF Expired(late) THEN
                    /\ c2s' = c2s \o StatusWritten(AckStatusV5(Len(rbuf), expected))
                    /\ r_acks' = r_acks \o StatusWritten(AckStatusV5(Len(rbuf), expected))
                    /\ r_pc' = "done"
                    /\ r_result' = "fail"
                    /\ UNCHANGED <<s2c, rbuf, remaining, last_data_time>>
               ELSE /\ r_pc' = "tm_top"
                    /\ UNCHANGED <<s2c, c2s, rbuf, remaining, last_data_time, r_result, r_acks>>
    /\ UNCHANGED <<sessionCfg, expected, sVars, window, startres, tsize, extra, ndrain, cycle, saved,
                   now, s_wake, deadline, r_wake>>

\* drain of the trailer: a read of up to 100 bytes with the 1 s timeout
Tm_Drain ==
    /\ r_pc = "tm_drain"
    /\ Len(s2c) >= DrainChunkV5 \/ now = r_wake
    /\ LET k == Min(DrainChunkV5, Len(s2c))
           e == extra \o SubSeq(s2c, 1, k)
       IN /\ s2c' = SubSeq(s2c, k + 1, Len(s2c))
          /\ extra' = e
          /\ ndrain' = ndrain + 1
          /\ IF k = 0 \/ Contains(e, FIN_TEXT)
             THEN r_pc' = "tm_pause" /\ r_wake' = now + AckPause
             ELSE r_pc' = "tm_drain" /\ r_wake' = now + DrainTimeout
    /\ UNCHANGED <<sessionCfg, expected, sVars, c2s, window, startres, tsize, rbuf, remaining, cycle, r_result,
                   saved, r_acks, now, s_wake, deadline, last_data_time>>

\* the pause before the final ACK is over: status line, file, result
Tm_Ack ==
    /\ r_pc = "tm_pause"
    /\ now = r_wake
    /\ c2s' = c2s \o StatusWritten(AckStatusV5(Len(rbuf), expected))
    /\ r_acks' = r_acks \o StatusWritten(AckStatusV5(Len(rbuf), expected))
    /\ saved' = <<rbuf>>
    /\ r_result' = IF SuccessFinal(Len(rbuf), rbuf) THEN "ok" ELSE "fail"
    /\ r_pc' = "done"
    /\ UNCHANGED <<sessionCfg, expected, sVars, s2c, window, startres, tsize, rbuf, remaining, extra, ndrain,
                   cycle, now, s_wake, deadline, r_wake, last_data_time>>

\* the times at which a sleep or a timed read ends
Wakes ==
    (IF s_pc \in {"tm_stabilize", "tm_gap", "tm_before_wait", "tm_readline", "tm_loop_sleep"} THEN {s_wake} ELSE {})
    \cup (IF r_pc \in {"tm_read", "tm_drain", "tm_pause"} THEN {r_wake} ELSE {})

\* a step that takes no time is due
Immediate ==
    \/ r_pc = "tm_top"
    \/ r_pc = "tm_read" /\ ReadFilled
    \/ r_pc = "tm_drain" /\ Len(s2c) >= DrainChunkV5
    \/ s_pc = "tm_readline" /\ c2s # <<>>

\* time passes until the next sleep or read ends
Tm_Advance ==
    /\ ~Immediate
    /\ Wakes # {}
    /\ \A w \in Wakes : now < w
    /\ now' = CHOOSE w \in Wakes : \A v \in Wakes : w <= v
    /\ UNCHANGED <<sessionCfg, expected, sVars, rVars, s2c, c2s, s_wake, deadline, r_wake, last_data_time>>

NextTimed ==
    \/ Tm_EndMarker \/ Tm_EndText \/ Tm_WaitForAck \/ Tm_AckLine \/ Tm_AckLoop
    \/ Tm_Top \/ Tm_Read \/ Tm_Drain \/ Tm_Ack
    \/ Tm_Advance

SpecTimed == InitTimed /\ [][NextTimed]_vars

(* ------------------------------ properties ----------------------------- *)
Last(q) == q[Len(q)]
OkLine == ACK_OK \o <<CRLF>>
EndsWith(l, p) == Len(l) >= Len(p) /\ SubSeq(l, Len(l) - Len(p) + 1, Len(l)) = p

\* a receiver program ran and got past the start marker and the size header
FrameRead == rx \in {"v5", "bk"} /\ r_pc = "done" /\ startres = "true" /\ tsize >= 0

\* nothing is lost, nothing precedes the frame, no write fails
CleanLink == lossm = 0 /\ ~lossTrailer /\ wfault = "none" /\ rfault = "none" /\ noise = <<>>

\* the transmitter is reading, as a status line, the head of c2s
ReadsAckLine == s_pc = "wait_ack" /\ c2s # <<>> /\ c2s' = Tail(c2s)

\* C1: on a clean link, with expected_size = len(P), the receiver's buffer at
\* the end of the session is P and the last status line it wrote is ACK_OK
C1_CleanTransfer ==
    (CleanLink /\ expected = size /\ FrameRead)
        => (rbuf = data /\ r_acks # <<>> /\ Last(r_acks) = OkLine)

\* C2: when only the last m payload bytes (0 < m < S) are dropped and the
\* trailer arrives, the receiver first reports ACK_MISSING with S-m and ends
\* with its buffer equal to P and ACK_OK
C2_TailLossRecovered ==
    (0 < lossm /\ lossm < size /\ ~lossTrailer /\ wfault = "none" /\ noise = <<>>
        /\ expected = size /\ FrameRead /\ nwaits >= 1)
        => (/\ rbuf = data
            /\ r_acks # <<>>
            /\ Last(r_acks) = OkLine
            /\ r_acks[1] = MissingLine(size - lossm))

\* C3: at the end of a receive session the buffer, and the file written from
\* it, hold no more bytes than the size header declared
C3_BufferWithinHeader ==
    (FrameRead => Len(rbuf) <= tsize)
        /\ (FrameRead /\ saved # <<>> => Len(saved[1]) <= tsize)

\* C4: for an empty payload the transmitter sends marker and a zero header and
\* no payload byte, and the receiver ends with an empty buffer, ACK_OK and
\* success
C4_EmptyPayload ==
    (size = 0 /\ CleanLink /\ expected = size /\ FrameRead)
        => (rbuf = <<>> /\ r_acks # <<>> /\ Last(r_acks) = OkLine /\ r_result = "ok")

\* C5: when every ACK wait of a send ended on ACK_MISSING with one and the
\* same count n, 0 <= n < S, the send ends in failure after exactly
\* max_retries+1 ACK waits and exactly max_retries retransmissions
C5_RetryExhaustion ==
    (s_pc = "done" /\ ackUniform /\ ackFirst # <<>>
        /\ \E n \in 0..(size - 1) : ackFirst[1] = ACK_MISSING \o Str(n))
        => (s_result = "fail" /\ nwaits = MaxRetries + 1 /\ nretx = MaxRetries)

C5_Witness ==
    /\ tx = "ack"
    /\ s_pc = "done"
    /\ ackUniform
    /\ ackFirst = <<ACK_MISSING \o Str(1)>>
    /\ nwaits = MaxRetriesAck + 1
    /\ nretx = MaxRetriesAck

\* C6: before a start marker has been recognized, four 0xCC bytes do not end
\* the marker search as a retry signal
C6_NoRetryBeforeStart == startres # "retry"

\* C7: once a frame read was attempted the receiver has written a status
\* line, and the last one is ACK_OK exactly when the bytes held equal the size
\* header, otherwise an ACK_MISSING line ending in the number of bytes held
C7_AckMatchesHeader ==
    FrameRead
        => /\ r_acks # <<>>
           /\ (Last(r_acks) = OkLine) <=> (Len(rbuf) = tsize)
           /\ Len(rbuf) # tsize
                => /\ Head(Last(r_acks)) = "ACK_MISSING"
                   /\ EndsWith(Strip(Last(r_acks)), Str(Len(rbuf)))

\* C8: when the transmitter reads an ACK_MISSING line written by the receiver,
\* which then holds n bytes, its ACK wait yields missing = declared size - n
C8_MissingCountRoundTrip ==
    [][(ReadsAckLine /\ rx \in {"v5", "bk"} /\ noise = <<>> /\ wfault = "none"
        /\ expected = size /\ Head(Head(c2s)) = "ACK_MISSING")
        => missing_bytes' = size - Len(rbuf)]_vars

\* C9: on ACK_MISSING with count n, 0 <= n < S, and retries left, what the
\* transmitter writes is the retry marker followed by exactly P[n:S]
C9_SuffixRetransmit ==
    [][\A n \in 0..(size - 1) :
        (ReadsAckLine /\ Strip(Head(c2s)) = ACK_MISSING \o Str(n) /\ retry < MaxRetries)
            => /\ lastRetx' = <<[n |-> n, bytes |-> RETRY_MARKER \o SubSeq(data, n + 1, size)]>>
               /\ nretx' = nretx + 1
               /\ (rx # "env" /\ chan = "free" => s2c' = s2c \o RETRY_MARKER \o SubSeq(data, n + 1, size))
               /\ (chan # "free" => outq' = outq \o RETRY_MARKER \o SubSeq(data, n + 1, size))]_vars

C9_Witness ==
    /\ tx = "ack"
    /\ rx = "bk"
    /\ lastRetx # <<>>
    /\ lastRetx[1].n > 0
    /\ lastRetx[1].n < size
    /\ Len(lastRetx[1].bytes) = 4 + size - lastRetx[1].n

\* C10: reading ACK_ERROR in the ACK wait ends the send in failure at once,
\* with no Retry Frame written and no further ACK wait
C10_AckErrorTerminal ==
    [][(ReadsAckLine /\ Strip(Head(c2s)) = ACK_ERROR)
        => (s_pc' = "done" /\ s_result' = "fail" /\ nretx' = nretx /\ nwaits' = nwaits)]_vars

\* one of the three ACK forms of the line protocol: ACK_OK, ACK_ERROR, or
\* ACK_MISSING: followed by an integer
RecognizedAck(l) ==
    \/ l = ACK_OK
    \/ l = ACK_ERROR
    \/ (StartsWith(l, ACK_MISSING) /\ ParseInt(SubSeq(l, Len(ACK_MISSING) + 1, Len(l))).ok)

\* C11: a line read in the ACK wait that is empty or is none of the recognized
\* ACK forms leaves the transmitter waiting: the wait does not end, no Retry
\* Frame is written and no result is returned
C11_NoiseLineIgnored ==
    [][(ReadsAckLine /\ ~RecognizedAck(Strip(Head(c2s))))
        => (s_pc' = "wait_ack" /\ nretx' = nretx /\ nwaits' = nwaits
            /\ s_result' = s_result /\ s2c' = s2c)]_vars

\* C12: a send that reports success has had every payload byte accepted by the
\* channel, its cursor at len(P), and an empty outbound buffer after the last
\* chunk
C12_SuccessMeansAllOut ==
    s_result = "ok" => (accepted = data /\ sent = size /\ drained)

\* C13: in the transmitters that watch the drain (send_bytes_robust and
\* send_bytes), a drain that times out with bytes still in the outbound buffer
\* ends the send in failure with no trailer written and no ACK wait started,
\* and the trailer is only ever written with the outbound buffer seen empty
C13_DrainFailureIsFailure ==
    [][(tx \in {"robust", "plain"} /\ s_pc = "chunks")
        => /\ (sent >= size /\ outq # <<>> /\ s_pc' # s_pc)
                => (s_pc' = "done" /\ s_result' = "fail" /\ outq' = outq /\ s2c' = s2c /\ nwaits' = 0)
           /\ (s2c' = s2c \o END_MARKER \o END_TEXT \/ outq' = outq \o END_MARKER \o END_TEXT)
                => (sent >= size /\ outq = <<>>)]_vars

C13_Witness ==
    /\ tx \in {"robust", "plain"}
    /\ chan = "stuck"
    /\ sent = size
    /\ outq # <<>>
    /\ s_pc = "done"
    /\ s_result = "fail"
    /\ nwaits = 0

\* C14: the payload bytes the channel has accepted so far are exactly the
\* bytes of P before the transmitter's cursor
C14_CursorFollowsAccepted == accepted = SubSeq(data, 1, sent)

\* C15: once five chunk writes in a row were partial the send has ended in
\* failure
C15_FivePartialsAbort == prun >= 5 => (s_pc = "done" /\ s_result = "fail")

\* no port fault, nothing before the frame, a channel that takes and sends
\* every byte at once
QuietPorts == wfault = "none" /\ rfault = "none" /\ noise = <<>> /\ chan = "free" /\ ~wpartial

\* C16: a receive session that got exactly the declared number of bytes, which
\* is also the number it was told to expect, ends with the success flag set
\* whatever the bytes are
C16_FlagFromCountsOnly ==
    (FrameRead /\ QuietPorts /\ tsize > 0 /\ Len(rbuf) = tsize /\ expected = tsize)
        => r_result = "ok"

\* C17: with a size header that differs from expected_size the receiver
\* reports success exactly when its buffer holds the header's number of bytes
C17_HeaderDecides ==
    (FrameRead /\ QuietPorts /\ tsize > 0 /\ expected # tsize /\ JpegValid(rbuf))
        => ((r_result = "ok") <=> (Len(rbuf) = tsize))

\* C18: a receive session that failed after the payload read began has
\* written the bytes it holds to the file
C18_PartialBufferKept ==
    (FrameRead /\ QuietPorts /\ expected = size /\ r_result = "fail" /\ rbuf # <<>>)
        => saved = <<rbuf>>

\* C19: a session function never ends in an exception: a finished send and a
\* finished receive have returned True or False
C19_NoExceptionEscapes ==
    /\ s_result \in {"none", "ok", "fail"}
    /\ r_result \in {"none", "ok", "fail"}
    /\ (s_pc = "done" => s_result \in {"ok", "fail"})
    /\ (rx # "env" /\ r_pc = "done" => r_result \in {"ok", "fail"})

C19_Witness ==
    /\ rx = "v5"
    /\ rfault = "read"
    /\ r_pc = "done"
    /\ r_result = "fail"
    /\ tx = "ack"
    /\ s_pc = "done"
    /\ s_result = "fail"
    /\ AckLogRaises

\* the bytes of the wire after its first line
AfterFirstLine(b) == SubSeq(b, Len(FirstLine(b)) + 1, Len(b))

IsPrefix(a, b) == Len(a) <= Len(b) /\ SubSeq(b, 1, Len(a)) = a

\* C20: what the server has written for a FOTO command begins with one
\* complete status line; after BAD|NO_IMAGE nothing follows; after OK|n what
\* follows is the Frame, start marker first, and its size header has the value n
C20_StatusLineThenFrame ==
    wire # <<>> =>
        LET line == FirstLine(wire)
            rest == AfterFirstLine(wire)
            head == START_MARKER \o Pack(ParseCount(StripBytes(line)).val)
        IN /\ line[Len(line)] = 10
           /\ \/ (line = BadStatus /\ rest = <<>>)
              \/ /\ StartsWith(line, RESP_OK)
                 /\ ParseCount(StripBytes(line)).ok
                 /\ IsPrefix(rest, head) \/ IsPrefix(head, rest)
                 /\ Len(rest) >= Len(head)
                        => Unpack(SubSeq(rest, Len(START_MARKER) + 1, Len(head))) = ParseCount(StripBytes(line)).val

\* the other case: no image, BAD|NO_IMAGE and nothing after it
C20_WitnessBad == wire = BadStatus /\ r_pc = "done" /\ s_pc = "sv_cmd" /\ c2s = <<>>

C20_Witness ==
    /\ s_pc = "chunks"
    /\ size >= 10
    /\ sent = size
    /\ StartsWith(wire, RESP_OK)
    /\ Len(wire) > Len(FirstLine(wire)) + Len(START_MARKER) + SIZE_BYTES

\* the receiver is in a payload read (_read_exact of the declared length)
InPayloadRead == rx \in {"v5", "bk"} /\ r_pc \in {"rx_top", "rx_chunk", "bk_chunk"}

\* C21: every byte a payload read takes from the channel is appended to the
\* buffer, whatever its value: none is dropped or taken for a marker
C21_PayloadOpaque ==
    [][(InPayloadRead /\ QuietPorts /\ lossm = 0 /\ Len(s2c') < Len(s2c))
            => rbuf' = rbuf \o SubSeq(s2c, 1, Len(s2c) - Len(s2c'))]_vars

\* the phase of the receive session at position pc with result res
PhaseOf(pc, res) ==
    CASE pc \in {"ready", "wait_marker"} -> "AwaitStartMarker"
      [] pc = "read_size" -> "ReadSizeHeader"
      [] pc \in {"rx_top", "rx_chunk", "bk_chunk"} -> "ReadPayload"
      [] pc \in {"drain", "bk_drain"} -> "Drain"
      [] pc \in {"ack", "bk_cycle"} -> "AwaitAck"
      [] pc \in {"wait_retry", "bk_fix"} -> "Retransmit"
      [] pc = "done" /\ res = "ok" -> "Complete"
      [] pc = "done" /\ res = "fail" -> "Failed"
      [] OTHER -> "none"

\* the order of the phases; a phase may fail at once, and the step that ends a
\* correction read writes the ACK of the cycle before it decides
PhaseSteps ==
    {<<"AwaitStartMarker", "ReadSizeHeader">>, <<"ReadSizeHeader", "ReadPayload">>,
     <<"ReadPayload", "Drain">>, <<"Drain", "AwaitAck">>,
     <<"AwaitAck", "Complete">>, <<"AwaitAck", "Failed">>, <<"AwaitAck", "Retransmit">>,
     <<"Retransmit", "AwaitAck">>, <<"Retransmit", "Complete">>,
     <<"AwaitStartMarker", "Failed">>, <<"ReadSizeHeader", "Failed">>,
     <<"ReadPayload", "Failed">>, <<"Drain", "Failed">>, <<"Retransmit", "Failed">>}

PhaseInOrder ==
    LET p == PhaseOf(r_pc, r_result)
        q == PhaseOf(r_pc', r_result')
    IN /\ q = p \/ <<p, q>> \in PhaseSteps
       /\ (p = "Retransmit" /\ q = "Complete" => r_acks' # r_acks)

\* a blocking read of the session got nothing before its time ran out and the
\* session moved on (the drain, whose time bound is its regular end, apart)
ReadTimesOut ==
    /\ r_pc' # r_pc
    /\ \/ r_pc \in {"wait_marker", "wait_retry", "rx_chunk", "bk_chunk", "bk_fix"} /\ ReadNeed > 0 /\ s2c = <<>>
       \/ r_pc = "read_size" /\ Len(s2c) < SIZE_BYTES

\* a finished session reads nothing, writes nothing and stays as it is
TerminalQuiet ==
    r_pc = "done" =>
        /\ rVars' = rVars
        /\ IsPrefix(s2c, s2c')
        /\ c2s = <<>> \/ c2s' \in {c2s, Tail(c2s)}

\* C22 as stated: the phases follow in their order, every timeout leads to
\* Failed, and a finished session is quiet
C22_PhaseOrder ==
    [][(rx \in {"v5", "bk"}) =>
            (/\ PhaseInOrder
             /\ (ReadTimesOut => PhaseOf(r_pc', r_result') = "Failed")
             /\ TerminalQuiet)]_vars

\* C22 amended: as above, except that in the earlier client a payload read
\* that times out goes on to Drain and a correction read that times out goes
\* back to AwaitAck
C22_PhaseOrderAmended ==
    [][(rx \in {"v5", "bk"}) =>
            (/\ PhaseInOrder
             /\ (ReadTimesOut /\ r_pc \notin {"bk_chunk", "bk_fix"} => PhaseOf(r_pc', r_result') = "Failed")
             /\ (ReadTimesOut /\ r_pc = "bk_chunk" /\ rfault # "read" => PhaseOf(r_pc', r_result') = "Drain")
             /\ (ReadTimesOut /\ r_pc = "bk_fix" => PhaseOf(r_pc', r_result') = "AwaitAck")
             /\ TerminalQuiet)]_vars

\* the earlier client's payload read timed out, a correction cycle ran and
\* the session ended Complete
C22_Witness ==
    /\ rx = "bk"
    /\ lossm > 0
    /\ lossTrailer
    /\ r_pc = "done"
    /\ r_result = "ok"
    /\ rbuf = data
    /\ Len(r_acks) = 2

\* C23: the trailer drain ends after a number of reads that what arrives
\* cannot raise: the trailer of one frame takes at most two reads, and a peer
\* that keeps sending bytes without the terminator text gets no further read
C23_DrainBounded == rx \in {"v5", "bk"} => ndrain <= 2

\* a payload read got nothing for the whole inactivity time
PayloadReadStalls ==
    InPayloadRead /\ r_pc \in {"rx_chunk", "bk_chunk"} /\ ReadNeed > 0 /\ s2c = <<>> /\ rfault = "none" /\ r_pc' # r_pc

\* C24: a payload read that stalls ends the read loop with the buffer as it
\* is; a read that brought bytes, with more to come, is followed by another
\* read; and the loop takes no byte beyond the declared size
C24_InactivityEndsRead ==
    [][/\ (PayloadReadStalls => (r_pc' \notin {"rx_top", "rx_chunk", "bk_chunk"} /\ rbuf' = rbuf))
       /\ (InPayloadRead /\ rfault = "none" /\ Len(s2c') < Len(s2c) /\ Len(rbuf') < tsize
                => r_pc' \in {"rx_top", "rx_chunk", "bk_chunk"})
       /\ (InPayloadRead => Len(rbuf') <= tsize)]_vars

\* C25: a step of the start-marker search either takes exactly one byte into
\* a window of the last 10 bytes, and ends the search with success exactly
\* when that window is the start marker, or, with nothing to read until
\* max_wait has passed, ends it with failure
C25_MarkerSearch ==
    [][(rx \in {"v5", "bk"} /\ r_pc = "wait_marker" /\ rVars' # rVars) =>
            \/ /\ s2c # <<>>
               /\ s2c' = Tail(s2c)
               /\ window' = LastN(window \o <<Head(s2c)>>, Len(START_MARKER))
               /\ IF window' = START_MARKER
                  THEN startres' = "true" /\ r_pc' = "read_size"
                  ELSE startres' = "none" /\ r_pc' = "wait_marker"
            \/ /\ s2c = <<>>
               /\ s2c' = s2c
               /\ startres' = "false"
               /\ r_pc' = "done"
               /\ r_result' = "fail"]_vars

\* the bytes of one Frame with its trailer
FrameBytes == START_MARKER \o Pack(size) \o data \o END_MARKER \o END_TEXT

IsSuffix(a, b) == Len(a) <= Len(b) /\ SubSeq(b, Len(b) - Len(a) + 1, Len(b)) = a

\* C26: until a Retry Frame is written, what the transmitter has put on the
\* wire is a beginning of: start marker, big-endian length of P, P, trailer;
\* and the receiver takes the bytes from the front of what has arrived
C26_FrameOrder ==
    [][/\ (nretx' = 0 => IsPrefix(wire', FrameBytes))
       /\ (rx \in {"v5", "bk"} /\ Len(s2c') < Len(s2c) => IsSuffix(s2c', s2c))]_vars

\* C27: in a correction cycle of the earlier client the retry marker is
\* followed by a read of declared size minus bytes held, with no new header;
\* the bytes read are appended to the buffer, which never passes the declared
\* size; and the step that ends the read writes exactly one ACK, for the
\* count then held, while no other step of the cycle writes one
C27_CorrectionAppends ==
    [][(rx = "bk" /\ r_pc \in {"wait_retry", "bk_fix"} /\ rVars' # rVars) =>
            /\ tsize' = tsize
            /\ (r_pc = "wait_retry" =>
                    /\ rbuf' = rbuf
                    /\ r_acks' = r_acks
                    /\ (r_pc' = "bk_fix" => remaining' = tsize - Len(rbuf)))
            /\ (r_pc = "bk_fix" =>
                    /\ rbuf' = rbuf \o SubSeq(s2c, 1, Len(s2c) - Len(s2c'))
                    /\ Len(rbuf') <= tsize
                    /\ IF r_pc' = "bk_fix" THEN r_acks' = r_acks /\ c2s' = c2s
                       ELSE /\ r_acks' = Append(r_acks, AckStatusBk(Len(rbuf'), tsize))
                            /\ c2s' = Append(c2s, AckStatusBk(Len(rbuf'), tsize))
                            /\ (Len(rbuf') = tsize => r_pc' = "done"))]_vars

\* a correction cycle filled the buffer and its ACK was ACK_OK
C27_Witness ==
    /\ rx = "bk"
    /\ r_pc = "done"
    /\ nretx = 1
    /\ Len(r_acks) = 2
    /\ r_acks[1] = MissingLine(size - lossm)
    /\ r_acks[2] = OkLine
    /\ rbuf = data
    /\ lossm > 1

\* C28: a step of a receive session leaves the buffer as it is or appends to
\* it, and it appends only in the payload read and in the correction read;
\* the one other change is the cut to the declared size at the end
C28_BufferOnlyGrows ==
    [][(rx \in {"v5", "bk"} /\ rbuf' # rbuf) =>
            \/ /\ r_pc \in {"rx_top", "rx_chunk", "bk_chunk", "bk_fix"}
               /\ IsPrefix(rbuf, rbuf')
               /\ Len(rbuf') > Len(rbuf)
            \/ /\ r_pc' = "done"
               /\ Len(rbuf) > tsize
               /\ rbuf' = SubSeq(rbuf, 1, tsize)]_vars

\* the buffer was built in several appends and the session has ended
C28_Witness ==
    /\ rx = "bk"
    /\ r_pc = "done"
    /\ nretx = 1
    /\ Len(rbuf) = tsize
    /\ tsize = MaxLen
    /\ r_result = "ok"

\* the status line of a receiver that holds no byte of the session
NoBytesLine == IF rx = "v5" THEN AckStatusV5(0, expected) ELSE AckStatusBk(0, expected)

\* C29: when one receiver object runs several sessions, the payload read of
\* each session starts from an empty buffer, and a status line written
\* before any payload byte of the session has been read (in the marker
\* search or the size read, on a failure or exception path) reports 0 bytes
C29_SessionCounts ==
    [][(rx \in {"v5", "bk"}) =>
            (/\ (r_pc = "read_size" /\ r_pc' \in {"rx_top", "bk_chunk"}) => rbuf' = <<>>
             /\ (r_pc \in {"wait_marker", "read_size"} /\ r_acks' # r_acks)
                    => r_acks' = r_acks \o <<NoBytesLine>>)]_vars

\* the transmitter reads a line ACK_MISSING:<n> whose count is at least the
\* declared size
ReadsCountPast ==
    /\ ReadsAckLine
    /\ StartsWith(Strip(Head(c2s)), ACK_MISSING)
    /\ ParseInt(SplitField1(Strip(Head(c2s)))).ok
    /\ ParseInt(SplitField1(Strip(Head(c2s)))).val >= size

\* C30: a transmitter that reads ACK_MISSING with a count n greater than or
\* equal to the declared size computes missing as 0, never a negative
\* number, and transmits no Retry Frame
C30_MissingClamped ==
    [][ReadsCountPast => (missing_bytes' = 0 /\ nretx' = nretx /\ wire' = wire)]_vars

\* what the transmitter writes before the payload
Preamble == START_MARKER \o Pack(size)

\* C31: when a chunk write raises the write-timeout fault the send returns
\* failure at once: the step writes nothing, and at the end of the send the
\* wire holds the preamble alone (no further payload byte, no trailer, no
\* Retry Frame) and no ACK wait was started
C31_ChunkFaultAborts ==
    [][(s_pc = "chunks" /\ wfault = "chunk") =>
            (/\ s_pc' = "done" => (s_result' = "fail" /\ wire' = wire /\ s2c' = s2c)
             /\ wire' = Preamble
             /\ nwaits' = 0
             /\ nretx' = 0
             /\ s_pc' \in {"chunks", "done"})]_vars

C31_Witness ==
    /\ wfault = "chunk" /\ s_pc = "done" /\ s_result = "fail" /\ size >= 10
    /\ wire = Preamble /\ nwaits = 0

\* the transmitter's ACK wait ends on its deadline, no line consumed, and
\* the send ends
AckWaitTimesOut == s_pc = "wait_ack" /\ s_pc' = "done" /\ c2s' = c2s

\* the transmitter reads the line ACK_ERROR and the send ends
EndsOnAckError == ReadsAckLine /\ Strip(Head(c2s)) = ACK_ERROR /\ s_pc' = "done"

\* C32: an ACK wait that ends on the deadline with no recognized line ends
\* the send in failure without a Retry Frame, and a send that ends on an
\* explicit ACK_ERROR line ends with an outcome different from that one
C32_TimeoutDistinct ==
    [][/\ AckWaitTimesOut => (s_result' = "fail" /\ nretx' = nretx /\ wire' = wire)
       /\ EndsOnAckError => s_result' # "fail"]_vars

\* the test server reads a line that is not empty once stripped
ServesLine == t_pc = "serving" /\ t_in # <<>> /\ t_in' = Tail(t_in) /\ Strip(Head(t_in)) # <<>>

RECURSIVE UpToSpace(_)
\* the command word of a line, and the text that follows it
UpToSpace(l) == IF l = <<>> \/ Head(l) = " " THEN <<>> ELSE <<Head(l)>> \o UpToSpace(Tail(l))
CommandWord(l) == Upper(UpToSpace(l))
TextAfter(l) == LStrip(SubSeq(l, Len(UpToSpace(l)) + 1, Len(l)))

\* the answer r is the one the command of the line calls for
Answers(l, r) ==
    IF Upper(l) = CmdPing THEN Contains(r, <<"PONG">>)
    ELSE IF CommandWord(l) = CmdEcho THEN Contains(r, TextAfter(l))
    ELSE IF Upper(l) = CmdData THEN Contains(r, <<"DATOS_PRUEBA">>)
    ELSE IF Upper(l) = CmdStatus THEN Contains(r, <<"OK", "|">>) /\ Contains(r, <<"MSGS", ":">>)
    ELSE IF Upper(l) = CmdQuit THEN Contains(r, <<"BYE">>)
    ELSE Contains(r, <<"UNKNOWN_CMD">>)

\* C33: for every non-empty line the test server reads it writes exactly one
\* response line, the one its command calls for: PONG for PING, a line
\* containing t for ECHO followed by t, DATOS_PRUEBA for DATA, OK| and MSGS:
\* for STATUS, and UNKNOWN_CMD for any other line
C33_OneResponse ==
    [][ServesLine => (/\ Len(t_out') = Len(t_out) + 1
                      /\ SubSeq(t_out', 1, Len(t_out)) = t_out
                      /\ Answers(Strip(Head(t_in)), Last(t_out')))]_vars

ByeLine == <<"BYE", CRLF>>

\* C34: the test server answers QUIT with BYE and processes no later line;
\* any other line leaves it serving, and it leaves its loop on no line but
\* QUIT (a port error or an interrupt aside)
C34_QuitEndsServing ==
    [][/\ ServesLine =>
            IF Upper(Strip(Head(t_in))) = CmdQuit
            THEN Last(t_out') = ByeLine /\ t_pc' = "closed"
            ELSE t_pc' = "serving"
       /\ (t_pc = "serving" /\ t_pc' # "serving" /\ t_in' # t_in)
            => (t_in # <<>> /\ Upper(Strip(Head(t_in))) = CmdQuit)
       /\ t_pc = "closed" =>
            (/\ t_pc' = "closed" /\ t_out' = t_out /\ message_count' = message_count
             /\ IsPrefix(t_in, t_in'))]_vars

C34_Witness ==
    /\ t_pc = "closed" /\ t_out # <<>> /\ Last(t_out) = ByeLine
    /\ message_count = 2 /\ Len(t_in) = 1 /\ Strip(Head(t_in)) = CmdPing

\* C35: whenever the send of a transmitter that waits for the ACK has
\* returned success, the buffer of the receiver that finished the session
\* equals the payload byte for byte
C35_SuccessMeansDelivered ==
    (tx \in {"robust", "ack"} /\ rx \in {"v5", "bk"} /\ s_pc = "done" /\ s_result = "ok" /\ r_pc = "done")
        => rbuf = data

\* C36: for every payload length of 1 or more, send_bytes_with_ack on a port
\* that accepts every write has, by the time it returns, written the whole
\* payload and then the trailer and made an ACK wait
C36_EveryLengthSent ==
    (tx = "ack" /\ size >= 1 /\ wfault = "none" /\ chan = "free" /\ ~wpartial /\ s_pc = "done")
        => (nwaits >= 1 /\ IsPrefix(Preamble \o data \o END_MARKER \o END_TEXT, wire))

\* the default max_retries of the transmitter that runs
RetryLimit == IF tx = "robust" THEN MaxRetriesRobust ELSE MaxRetriesAck

\* C37: whatever lines arrive during the ACK waits, a send transmits at most
\* max_retries Retry Frames and makes at most max_retries + 1 ACK waits
C37_RetriesBounded ==
    tx \in {"robust", "ack"} => (nretx <= RetryLimit /\ nwaits <= RetryLimit + 1)

C37_Witness ==
    /\ tx = "ack" /\ rx = "env" /\ s_pc = "done" /\ s_result = "fail"
    /\ nretx = MaxRetriesAck /\ nwaits = MaxRetriesAck + 1
    /\ ~ackUniform

\* C38: every Retry Frame the transmitter writes is triggered by a line
\* ACK_MISSING:<n> with a decimal count 0 <= n < S and carries exactly
\* P[n:S]; no other line, and no ACK_MISSING whose count is negative or is
\* not a number, makes it retransmit payload bytes
C38_RetryOnlyOnValidCount ==
    [][(tx \in {"robust", "ack"} /\ nretx' # nretx) =>
            \E n \in 0..(size - 1) :
                /\ ReadsAckLine
                /\ Strip(Head(c2s)) = ACK_MISSING \o Str(n)
                /\ lastRetx' = <<[n |-> n, bytes |-> RETRY_MARKER \o SubSeq(data, n + 1, size)]>>]_vars

\* C39: whatever noise precedes the start marker on the link, the size a
\* receiver decodes from the 4 bytes it takes as the header is len(P)
C39_HeaderAfterNoise ==
    (rx \in {"v5", "bk"} /\ tsize # -1) => tsize = size

\* the transmitter is inside _wait_for_ack
InAckWait == s_pc \in {"tm_readline", "tm_loop_sleep"}

\* C40: when the receiver, having left its payload read through the
\* inactivity timeout, writes its status line, the sender is still inside its
\* ACK wait: the sender's deadline has not passed before the receiver answers
C40_AnswerWithinAckWait ==
    [][(r_pc = "tm_read" /\ r_pc' = "done" /\ r_acks' # r_acks) => InAckWait]_vars

====
